---- MODULE Spec2Model ----
(***************************************************************************)
(* A model of the Clear interpreter front end: the lexer (package lexer),  *)
(* the token table (package token), the Pratt parser (package parser) and  *)
(* the AST stringifier (package ast).                                      *)
(*                                                                         *)
(* Source text is a sequence of bytes (naturals 0..255), as a Go string    *)
(* is.  Go values are records; a parse function that returns a value and   *)
(* changes the parser is an operator from a parser record to a record      *)
(* [p |-> the parser afterwards, v |-> the value returned].                *)
(***************************************************************************)
EXTENDS Integers, Sequences, FiniteSets, TLC

RECURSIVE skipWhitespace(_), readIdentifier(_), readNumber(_)
RECURSIVE parseStatement(_), parseExpression(_, _), prattLoop(_, _, _)
RECURSIVE blockLoop(_, _), argsLoop(_, _), paramsLoop(_, _)
RECURSIVE String(_), Join(_, _)
RECURSIVE ParseUint(_, _, _)
RECURSIVE MulAddRev(_, _, _), StripZeros(_)
RECURSIVE Flatten(_)
RECURSIVE Nodes(_)
RECURSIVE Wrapped(_, _), RefChain(_, _, _)
RECURSIVE skipLoop(_)
RECURSIVE blockLoop_noEOF(_, _)
RECURSIVE Eval(_, _), evalStatementsLoop(_, _, _)

(***************************************************************************)
(* Bytes.  Printable ASCII, so that text can be written down in the model. *)
(***************************************************************************)
Printable ==
    << " ", "!", "\"", "#", "$", "%", "&", "'", "(", ")", "*", "+", ",", "-", ".", "/",
       "0", "1", "2", "3", "4", "5", "6", "7", "8", "9", ":", ";", "<", "=", ">", "?",
       "@", "A", "B", "C", "D", "E", "F", "G", "H", "I", "J", "K", "L", "M", "N", "O",
       "P", "Q", "R", "S", "T", "U", "V", "W", "X", "Y", "Z", "[", "\\", "]", "^", "_",
       "BACKTICK", "a", "b", "c", "d", "e", "f", "g", "h", "i", "j", "k", "l", "m", "n", "o",
       "p", "q", "r", "s", "t", "u", "v", "w", "x", "y", "z", "{", "|", "}", "~" >>

\* The byte of a one-character string: the space is 32, the first of Printable.
OrdTable ==
    [c \in {Printable[i] : i \in 1..Len(Printable)} |->
        31 + (CHOOSE i \in 1..Len(Printable) : Printable[i] = c)]

Ord(c) == OrdTable[c]

\* The bytes of a text given as a tuple of one-character strings.
B(cs) == [i \in 1..Len(cs) |-> Ord(cs[i])]

\* The concatenation of a sequence of byte sequences.
Flatten(ss) == IF ss = <<>> THEN <<>> ELSE Head(ss) \o Flatten(Tail(ss))

\* F of the value v, which is computed once: v is a call's result and F what
\* the code goes on to do with it.
With(v, F(_)) == F(v)

(***************************************************************************)
(* package token                                                           *)
(***************************************************************************)
ILLEGAL == "ILLEGAL"
EOF == "EOF"
IDENT == "IDENT"
INT == "INT"
ASSIGN == "="
EQ == "=="
NOT_EQ == "!="
PLUS == "+"
MINUS == "-"
BANG == "!"
ASTERISK == "*"
SLASH == "/"
LT == "<"
GT == ">"
COMMA == ","
SEMICOLON == ";"
LPAREN == "("
RPAREN == ")"
LBRACE == "{"
RBRACE == "}"
FUNCTION == "FUNCTION"
LET_ == "LET"
TRUE_ == "TRUE"
FALSE_ == "FALSE"
IF_ == "IF"
ELSE_ == "ELSE"
RETURN == "RETURN"

Token(type, literal) == [Type |-> type, Literal |-> literal]

\* The zero value of token.Token, which a new Parser's fields hold.
ZeroToken == Token("", <<>>)

keywords ==
    (B(<<"f", "n">>) :> FUNCTION)
    @@ (B(<<"l", "e", "t">>) :> LET_)
    @@ (B(<<"t", "r", "u", "e">>) :> TRUE_)
    @@ (B(<<"f", "a", "l", "s", "e">>) :> FALSE_)
    @@ (B(<<"i", "f">>) :> IF_)
    @@ (B(<<"e", "l", "s", "e">>) :> ELSE_)
    @@ (B(<<"r", "e", "t", "u", "r", "n">>) :> RETURN)

LookupIdent(ident) ==
    IF ident \in DOMAIN keywords THEN keywords[ident] ELSE IDENT

(***************************************************************************)
(* package lexer                                                           *)
(***************************************************************************)
\* A Lexer value: position and readPosition are 0-based, as in Go.
Lexer(input, position, readPosition, ch) ==
    [input |-> input, position |-> position, readPosition |-> readPosition, ch |-> ch]

\* readChar with another byte than 0 for the end of the input.
readChar_noZeroAtEnd(l) ==
    [l EXCEPT
        !.ch = IF l.readPosition >= Len(l.input) THEN Ord(";") ELSE l.input[l.readPosition + 1],
        !.position = l.readPosition,
        !.readPosition = l.readPosition + 1]

readChar(l) ==
    [l EXCEPT
        !.ch = IF l.readPosition >= Len(l.input) THEN 0 ELSE l.input[l.readPosition + 1],
        !.position = l.readPosition,
        !.readPosition = l.readPosition + 1]

LexerNew(input) == readChar(Lexer(input, 0, 0, 0))

peekChar(l) ==
    IF l.readPosition >= Len(l.input) THEN 0 ELSE l.input[l.readPosition + 1]

\* isLetter that also takes the digits.
isLetter_orDigit(ch) ==
    \/ (Ord("a") <= ch /\ ch <= Ord("z"))
    \/ (Ord("A") <= ch /\ ch <= Ord("Z"))
    \/ ch = Ord("_")
    \/ (Ord("0") <= ch /\ ch <= Ord("9"))

isLetter(ch) ==
    \/ (Ord("a") <= ch /\ ch <= Ord("z"))
    \/ (Ord("A") <= ch /\ ch <= Ord("Z"))
    \/ ch = Ord("_")

isDigit(ch) == Ord("0") <= ch /\ ch <= Ord("9")

\* Go's string(ch) of a byte: the UTF-8 encoding of the code point ch, which is
\* the byte itself below 128 and two bytes from 128 on.
ByteString(ch) ==
    IF ch < 128 THEN <<ch>> ELSE <<192 + (ch \div 64), 128 + (ch % 64)>>

newToken(tokenType, ch) == Token(tokenType, ByteString(ch))

isWhitespace(ch) == ch \in {Ord(" "), 9, 10, 13}

skipWhitespace(l) ==
    IF isWhitespace(l.ch) THEN skipWhitespace(readChar(l)) ELSE l

\* readIdentifier and readNumber return the lexer after the run; the text of
\* the run is input[position:l.position] of the position the run started at.
readIdentifier(l) == IF isLetter(l.ch) THEN readIdentifier(readChar(l)) ELSE l

readNumber(l) == IF isDigit(l.ch) THEN readNumber(readChar(l)) ELSE l

\* Go's input[from:to].
InputSlice(input, from, to) == SubSeq(input, from + 1, to)

\* The token kinds of the single-character cases of NextToken's switch.
SingleCharKinds ==
    (Ord("+") :> PLUS) @@ (Ord("-") :> MINUS) @@ (Ord("/") :> SLASH)
    @@ (Ord("*") :> ASTERISK) @@ (Ord("<") :> LT) @@ (Ord(">") :> GT)
    @@ (Ord(";") :> SEMICOLON) @@ (Ord(",") :> COMMA) @@ (Ord("{") :> LBRACE)
    @@ (Ord("}") :> RBRACE) @@ (Ord("(") :> LPAREN) @@ (Ord(")") :> RPAREN)

\* NextToken that leaves the second byte of == to the next call.
NextToken_rereading(l0) ==
    With(skipWhitespace(l0), LAMBDA l :
        CASE l.ch = Ord("=") ->
                IF peekChar(l) = Ord("=")
                THEN With(readChar(l), LAMBDA l1 :
                         [l |-> l1,
                          tok |-> Token(EQ, ByteString(l.ch) \o ByteString(l1.ch))])
                ELSE [l |-> readChar(l), tok |-> newToken(ASSIGN, l.ch)]
          [] l.ch = Ord("!") ->
                IF peekChar(l) = Ord("=")
                THEN With(readChar(l), LAMBDA l1 :
                         [l |-> readChar(l1),
                          tok |-> Token(NOT_EQ, ByteString(l.ch) \o ByteString(l1.ch))])
                ELSE [l |-> readChar(l), tok |-> newToken(BANG, l.ch)]
          [] l.ch \in DOMAIN SingleCharKinds ->
                [l |-> readChar(l), tok |-> newToken(SingleCharKinds[l.ch], l.ch)]
          [] l.ch = 0 -> [l |-> readChar(l), tok |-> Token(EOF, <<>>)]
          [] OTHER ->
                IF isLetter(l.ch)
                THEN With(readIdentifier(l), LAMBDA l1 :
                         [l |-> l1,
                          tok |-> Token(LookupIdent(InputSlice(l.input, l.position, l1.position)),
                                        InputSlice(l.input, l.position, l1.position))])
                ELSE IF isDigit(l.ch)
                THEN With(readNumber(l), LAMBDA l1 :
                         [l |-> l1,
                          tok |-> Token(INT, InputSlice(l.input, l.position, l1.position))])
                ELSE [l |-> readChar(l), tok |-> newToken(ILLEGAL, l.ch)])

\* NextToken returns [l |-> the lexer afterwards, tok |-> the token].
NextToken(l0) ==
    With(skipWhitespace(l0), LAMBDA l :
        CASE l.ch = Ord("=") ->
                IF peekChar(l) = Ord("=")
                THEN With(readChar(l), LAMBDA l1 :
                         [l |-> readChar(l1),
                          tok |-> Token(EQ, ByteString(l.ch) \o ByteString(l1.ch))])
                ELSE [l |-> readChar(l), tok |-> newToken(ASSIGN, l.ch)]
          [] l.ch = Ord("!") ->
                IF peekChar(l) = Ord("=")
                THEN With(readChar(l), LAMBDA l1 :
                         [l |-> readChar(l1),
                          tok |-> Token(NOT_EQ, ByteString(l.ch) \o ByteString(l1.ch))])
                ELSE [l |-> readChar(l), tok |-> newToken(BANG, l.ch)]
          [] l.ch \in DOMAIN SingleCharKinds ->
                [l |-> readChar(l), tok |-> newToken(SingleCharKinds[l.ch], l.ch)]
          [] l.ch = 0 -> [l |-> readChar(l), tok |-> Token(EOF, <<>>)]
          [] OTHER ->
                IF isLetter(l.ch)
                THEN With(readIdentifier(l), LAMBDA l1 :
                         [l |-> l1,
                          tok |-> Token(LookupIdent(InputSlice(l.input, l.position, l1.position)),
                                        InputSlice(l.input, l.position, l1.position))])
                ELSE IF isDigit(l.ch)
                THEN With(readNumber(l), LAMBDA l1 :
                         [l |-> l1,
                          tok |-> Token(INT, InputSlice(l.input, l.position, l1.position))])
                ELSE [l |-> readChar(l), tok |-> newToken(ILLEGAL, l.ch)])

(***************************************************************************)
(* package ast: the nodes.  A nil interface value is Nil; a nil pointer of *)
(* a given type held in an interface is a value of its own, since Go's     *)
(* `x != nil` is true of an interface that holds a typed nil pointer.      *)
(***************************************************************************)
Nil == [node |-> "nil"]
NilLetStatement == [node |-> "(*LetStatement)(nil)"]
NilBlockStatement == [node |-> "(*BlockStatement)(nil)"]

\* A Go slice: nil, or a (possibly empty) list of elements.
NilSlice == [isNil |-> TRUE, elems |-> <<>>]
GoSlice(elems) == [isNil |-> FALSE, elems |-> elems]

Program(statements) == [node |-> "Program", Statements |-> statements]
LetStatement(tok, name, value) ==
    [node |-> "LetStatement", Token |-> tok, Name |-> name, Value |-> value]
Identifier(tok, value) == [node |-> "Identifier", Token |-> tok, Value |-> value]
ReturnStatement(tok, value) ==
    [node |-> "ReturnStatement", Token |-> tok, ReturnValue |-> value]
ExpressionStatement(tok, expression) ==
    [node |-> "ExpressionStatement", Token |-> tok, Expression |-> expression]
IntegerLiteral(tok, value) == [node |-> "IntegerLiteral", Token |-> tok, Value |-> value]
PrefixExpression(tok, operator, right) ==
    [node |-> "PrefixExpression", Token |-> tok, Operator |-> operator, Right |-> right]
InfixExpression(tok, left, operator, right) ==
    [node |-> "InfixExpression", Token |-> tok, Left |-> left, Operator |-> operator,
     Right |-> right]
Boolean(tok, value) == [node |-> "Boolean", Token |-> tok, Value |-> value]
IfExpression(tok, condition, consequence, alternative) ==
    [node |-> "IfExpression", Token |-> tok, Condition |-> condition,
     Consequence |-> consequence, Alternative |-> alternative]
BlockStatement(tok, statements) ==
    [node |-> "BlockStatement", Token |-> tok, Statements |-> statements]
FunctionLiteral(tok, parameters, body) ==
    [node |-> "FunctionLiteral", Token |-> tok, Parameters |-> parameters, Body |-> body]
CallExpression(tok, function, arguments) ==
    [node |-> "CallExpression", Token |-> tok, Function |-> function,
     Arguments |-> arguments]

(***************************************************************************)
(* package ast: String.  A call that dereferences nil panics; the result   *)
(* of String is [ok |-> whether it returned, s |-> the bytes returned].    *)
(***************************************************************************)
Ok(s) == [ok |-> TRUE, s |-> s]
Panic == [ok |-> FALSE, s |-> <<>>]

\* What a bytes.Buffer holds after the parts were written in order: a part
\* whose String call panicked panics the whole.
Cat(parts) ==
    IF \A i \in 1..Len(parts) : parts[i].ok
    THEN Ok(Flatten([i \in 1..Len(parts) |-> parts[i].s]))
    ELSE Panic

\* strings.Join
Join(strs, sep) ==
    IF strs = <<>> THEN <<>>
    ELSE IF Len(strs) = 1 THEN strs[1]
    ELSE strs[1] \o sep \o Join(Tail(strs), sep)

StringEach(nodes) == [i \in 1..Len(nodes) |-> String(nodes[i])]

JoinEach(nodes, sep) ==
    LET parts == StringEach(nodes)
    IN  IF \A i \in 1..Len(parts) : parts[i].ok
        THEN Ok(Join([i \in 1..Len(parts) |-> parts[i].s], sep))
        ELSE Panic

Program_String(n) == Cat(StringEach(n.Statements))

LetStatement_String(n) ==
    Cat(<<Ok(n.Token.Literal \o B(<<" ">>)), String(n.Name), Ok(B(<<" ", "=", " ">>)),
          IF n.Value # Nil THEN String(n.Value) ELSE Ok(<<>>), Ok(B(<<";">>))>>)

Identifier_String(n) == Ok(n.Value)

ReturnStatement_String(n) ==
    Cat(<<Ok(n.Token.Literal \o B(<<" ">>)),
          IF n.ReturnValue # Nil THEN String(n.ReturnValue) ELSE Ok(<<>>), Ok(B(<<";">>))>>)

ExpressionStatement_String(n) ==
    IF n.Expression # Nil THEN String(n.Expression) ELSE Ok(<<>>)

IntegerLiteral_String(n) == Ok(n.Token.Literal)

PrefixExpression_String(n) ==
    Cat(<<Ok(B(<<"(">>)), Ok(n.Operator), String(n.Right), Ok(B(<<")">>))>>)

InfixExpression_String(n) ==
    Cat(<<Ok(B(<<"(">>)), String(n.Left), Ok(B(<<" ">>) \o n.Operator \o B(<<" ">>)),
          String(n.Right), Ok(B(<<")">>))>>)

Boolean_String(n) == Ok(n.Token.Literal)

IfExpression_String(n) ==
    Cat(<<Ok(B(<<"i", "f">>)), String(n.Condition), Ok(B(<<" ">>)), String(n.Consequence),
          IF n.Alternative # NilBlockStatement
          THEN Cat(<<Ok(B(<<"e", "l", "s", "e", " ">>)), String(n.Alternative)>>)
          ELSE Ok(<<>>)>>)

BlockStatement_String(n) == Cat(StringEach(n.Statements))

FunctionLiteral_String(n) ==
    Cat(<<Ok(n.Token.Literal), Ok(B(<<"(">>)), JoinEach(n.Parameters.elems, B(<<",", " ">>)),
          Ok(B(<<")", " ">>)), String(n.Body)>>)

\* CallExpression.String joining the arguments with a space.
CallExpression_String_space(n) ==
    Cat(<<String(n.Function), Ok(B(<<"(">>)), JoinEach(n.Arguments.elems, B(<<" ">>)),
          Ok(B(<<")">>))>>)

CallExpression_String(n) ==
    Cat(<<String(n.Function), Ok(B(<<"(">>)), JoinEach(n.Arguments.elems, B(<<",", " ">>)),
          Ok(B(<<")">>))>>)

\* n.String(): the method of n's dynamic type.  A method called on a nil
\* interface panics, and so does LetStatement.String on a nil *LetStatement,
\* which reads ls.Token.
String(n) ==
    CASE n.node = "Program" -> Program_String(n)
      [] n.node = "LetStatement" -> LetStatement_String(n)
      [] n.node = "Identifier" -> Identifier_String(n)
      [] n.node = "ReturnStatement" -> ReturnStatement_String(n)
      [] n.node = "ExpressionStatement" -> ExpressionStatement_String(n)
      [] n.node = "IntegerLiteral" -> IntegerLiteral_String(n)
      [] n.node = "PrefixExpression" -> PrefixExpression_String(n)
      [] n.node = "InfixExpression" -> InfixExpression_String(n)
      [] n.node = "Boolean" -> Boolean_String(n)
      [] n.node = "IfExpression" -> IfExpression_String(n)
      [] n.node = "BlockStatement" -> BlockStatement_String(n)
      [] n.node = "FunctionLiteral" -> FunctionLiteral_String(n)
      [] n.node = "CallExpression" -> CallExpression_String(n)
      [] OTHER -> Panic

(***************************************************************************)
(* strconv.ParseInt(s, 0, 64), as parseIntegerLiteral calls it.  With base *)
(* 0 the base is taken from the prefix of s: a leading 0 means octal (the  *)
(* prefixes 0b, 0o and 0x need a letter, which a run of digits never has). *)
(***************************************************************************)
\* The digits of 1<<63 - 1 in base 10 and in base 8.
MaxInt64Digits(base) ==
    IF base = 10
    THEN <<9, 2, 2, 3, 3, 7, 2, 0, 3, 6, 8, 5, 4, 7, 7, 5, 8, 0, 7>>
    ELSE [i \in 1..21 |-> 7]

\* digits, without its leading zeros, denotes a number that is at most max.
AtMost(digits, max) ==
    LET lead == {i \in 1..Len(digits) : \A j \in 1..i : digits[j] = 0}
        ds == SubSeq(digits, Cardinality(lead) + 1, Len(digits))
    IN  \/ Len(ds) < Len(max)
        \/ /\ Len(ds) = Len(max)
           /\ \/ ds = max
              \/ \E k \in 1..Len(ds) :
                    ds[k] < max[k] /\ \A j \in 1..(k - 1) : ds[j] = max[j]

\* An int64 value: whether it is negative, and the decimal digits of its
\* magnitude, the most significant first, without leading zeros (none for
\* 0).  The magnitude is at most 1<<63 - 1, or 1<<63 when negative.
Int64(neg, mag) == [neg |-> neg, mag |-> mag]

StripZeros(digits) ==
    IF digits # <<>> /\ Head(digits) = 0 THEN StripZeros(Tail(digits)) ELSE digits

Reverse(seq) == [i \in 1..Len(seq) |-> seq[Len(seq) + 1 - i]]

\* The digits, the least significant first, of m times the number of the
\* digits rev (the least significant first) plus carry.
MulAddRev(rev, m, carry) ==
    IF rev = <<>>
    THEN IF carry = 0 THEN <<>> ELSE <<carry % 10>> \o MulAddRev(<<>>, m, carry \div 10)
    ELSE <<(Head(rev) * m + carry) % 10>>
         \o MulAddRev(Tail(rev), m, (Head(rev) * m + carry) \div 10)

\* n*m + d of a magnitude n.
MulAdd(n, m, d) == StripZeros(Reverse(MulAddRev(Reverse(n), m, d)))

\* The magnitude that the digits denote in the base, after n.
ParseUint(digits, base, n) ==
    IF digits = <<>> THEN n
    ELSE IF n = <<>> /\ Head(digits) = 0 THEN ParseUint(Tail(digits), base, n)
    ELSE ParseUint(Tail(digits), base, MulAdd(n, base, Head(digits)))

\* [ok |-> err == nil, value |-> the int64]
ParseInt(s) ==
    LET octal == s # <<>> /\ s[1] = Ord("0")
        base == IF octal THEN 8 ELSE 10
        body == IF octal THEN Tail(s) ELSE s
        digits == [i \in 1..Len(body) |-> body[i] - Ord("0")]
    IN  IF s = <<>> THEN [ok |-> FALSE, value |-> Int64(FALSE, <<>>)]
        ELSE IF \E i \in 1..Len(digits) : digits[i] < 0 \/ digits[i] >= base
        THEN [ok |-> FALSE, value |-> Int64(FALSE, <<>>)]
        ELSE IF ~AtMost(digits, MaxInt64Digits(base))
        THEN [ok |-> FALSE, value |-> Int64(FALSE, <<>>)]
        ELSE [ok |-> TRUE, value |-> Int64(FALSE, ParseUint(digits, base, <<>>))]

(***************************************************************************)
(* package parser (the full parser)                                        *)
(***************************************************************************)
LOWEST == 1
EQUALS == 2
LESSGREATER == 3
SUM == 4
PRODUCT == 5
PREFIX == 6
CALL == 7

precedences ==
    (EQ :> EQUALS) @@ (NOT_EQ :> EQUALS) @@ (LT :> LESSGREATER) @@ (GT :> LESSGREATER)
    @@ (PLUS :> SUM) @@ (MINUS :> SUM) @@ (SLASH :> PRODUCT) @@ (ASTERISK :> PRODUCT)
    @@ (LPAREN :> CALL)

\* The most loop iterations one parse may take in the model: a loop that
\* reaches it is cut and the parse is marked as not having returned.
MaxIter == 48

(***************************************************************************)
(* A Parser value.  l, curToken, peekToken and errors are the fields of    *)
(* the Go struct (the two tables of parse functions never change after New *)
(* and are the definitions prefixParseFns and infixParseFns below).  g is  *)
(* bookkeeping of the model, not of the program: the failure events so     *)
(* far, the loop iterations so far, whether a loop iteration ended with    *)
(* nothing consumed, and whether a loop was cut at MaxIter.                *)
(***************************************************************************)
Parser(l) ==
    [l |-> l, curToken |-> ZeroToken, peekToken |-> ZeroToken, errors |-> <<>>,
     g |-> [events |-> 0, iters |-> 0, stalled |-> FALSE, cut |-> FALSE, missed |-> FALSE]]

\* [p |-> the parser afterwards, v |-> the value returned]
R(p, v) == [p |-> p, v |-> v]

\* nextToken that asks the lexer for two tokens and keeps the second.
nextToken_skipping(p) ==
    With(NextToken(NextToken(p.l).l), LAMBDA r :
        [p EXCEPT !.curToken = p.peekToken, !.peekToken = r.tok, !.l = r.l])

nextToken(p) ==
    With(NextToken(p.l), LAMBDA r :
        [p EXCEPT !.curToken = p.peekToken, !.peekToken = r.tok, !.l = r.l])

New(l) == nextToken(nextToken(Parser(l)))

Errors(p) == p.errors

curTokenIs(p, t) == p.curToken.Type = t

peekTokenIs(p, t) == p.peekToken.Type = t

peekPrecedence(p) ==
    IF p.peekToken.Type \in DOMAIN precedences
    THEN precedences[p.peekToken.Type] ELSE LOWEST

curPrecedence(p) ==
    IF p.curToken.Type \in DOMAIN precedences
    THEN precedences[p.curToken.Type] ELSE LOWEST

peekError(p, t) ==
    [p EXCEPT !.errors = Append(@,
        [msg |-> "expected next token to be %s, got %s", expected |-> t,
         got |-> p.peekToken.Type])]

\* The draft parseExpression returns nil for a token without a prefix
\* parse function and records nothing.
noPrefixParseFnError_silent(p, t) == p

noPrefixParseFnError(p, t) ==
    [p EXCEPT !.errors = Append(@,
        [msg |-> "no prefix parse function for %s found", type |-> t])]

\* One more failure event (bookkeeping).
Failed(p) == [p EXCEPT !.g.events = @ + 1]

\* One more loop iteration (bookkeeping).  A loop is cut, and the parse
\* marked as not having returned, at MaxIter iterations or once an iteration
\* has consumed nothing.
Iter(p) == [p EXCEPT !.g.iters = @ + 1]
Cut(p) == [p EXCEPT !.g.cut = TRUE]
Exhausted(p) == p.g.iters >= MaxIter \/ p.g.stalled

\* What is left to consume: the bytes the lexer has not passed, and the
\* current and the peek token unless they are EOF.  nextToken never raises
\* it, and lowers it when the current token is not EOF.
Unconsumed(p) ==
    (IF p.l.position >= Len(p.l.input) THEN 0 ELSE Len(p.l.input) - p.l.position)
    + (IF curTokenIs(p, EOF) THEN 0 ELSE 1)
    + (IF peekTokenIs(p, EOF) THEN 0 ELSE 1)

\* The loop iteration that took the parser from p0 to p1 (bookkeeping): it
\* stalled if it consumed nothing.
Iterated(p0, p1) == [p1 EXCEPT !.g.stalled = @ \/ Unconsumed(p1) >= Unconsumed(p0)]

\* expectPeek of the first draft, which records no error.
\* expectPeek that advances whether or not the peek token is the expected one.
expectPeek_advancing(p, t) ==
    IF peekTokenIs(p, t)
    THEN R(nextToken(p), TRUE)
    ELSE R(nextToken(peekError(Failed(p), t)), FALSE)

expectPeek_silent(p, t) ==
    IF peekTokenIs(p, t)
    THEN R(nextToken(p), TRUE)
    ELSE R(Failed(p), FALSE)

expectPeek(p, t) ==
    IF peekTokenIs(p, t)
    THEN R(nextToken(p), TRUE)
    ELSE R(peekError(Failed(p), t), FALSE)

parseIdentifier(p) == R(p, Identifier(p.curToken, p.curToken.Literal))

\* The loop of the draft parseLetStatement, which skips the expression:
\* `for !p.curTokenIs(token.SEMICOLON) { p.nextToken() }`.
skipLoop(p) ==
    IF ~curTokenIs(p, SEMICOLON)
    THEN IF Exhausted(p) THEN Cut(p) ELSE skipLoop(Iterated(p, nextToken(Iter(p))))
    ELSE p

\* parseLetStatement skipping to the semicolon, as the draft does.
parseLetStatement_skipping(p) ==
    With(expectPeek(p, IDENT), LAMBDA r1 :
        IF ~r1.v THEN R(r1.p, NilLetStatement)
        ELSE With(expectPeek(r1.p, ASSIGN), LAMBDA r2 :
            IF ~r2.v THEN R(r2.p, NilLetStatement)
            ELSE R(skipLoop(r2.p),
                   LetStatement(p.curToken,
                                Identifier(r1.p.curToken, r1.p.curToken.Literal), Nil))))

parseLetStatement(p) ==
    With(expectPeek(p, IDENT), LAMBDA r1 :
        IF ~r1.v THEN R(r1.p, NilLetStatement)
        ELSE With(expectPeek(r1.p, ASSIGN), LAMBDA r2 :
            IF ~r2.v THEN R(r2.p, NilLetStatement)
            ELSE With(parseExpression(nextToken(r2.p), LOWEST), LAMBDA r3 :
                R(IF peekTokenIs(r3.p, SEMICOLON) THEN nextToken(r3.p) ELSE r3.p,
                  LetStatement(p.curToken,
                               Identifier(r1.p.curToken, r1.p.curToken.Literal), r3.v)))))

parseReturnStatement(p) ==
    With(parseExpression(nextToken(p), LOWEST), LAMBDA r :
        R(IF peekTokenIs(r.p, SEMICOLON) THEN nextToken(r.p) ELSE r.p,
          ReturnStatement(p.curToken, r.v)))

parseExpressionStatement(p) ==
    With(parseExpression(p, LOWEST), LAMBDA r :
        R(IF peekTokenIs(r.p, SEMICOLON) THEN nextToken(r.p) ELSE r.p,
          ExpressionStatement(p.curToken, r.v)))

parseIntegerLiteral(p) ==
    With(ParseInt(p.curToken.Literal), LAMBDA r :
        IF ~r.ok
        THEN R([Failed(p) EXCEPT !.errors = Append(@,
                   [msg |-> "could not parse %q as integer",
                    literal |-> p.curToken.Literal])], Nil)
        ELSE R(p, IntegerLiteral(p.curToken, r.value)))

\* parsePrefixExpression parsing its operand at LOWEST.
parsePrefixExpression_lowest(p) ==
    With(parseExpression(nextToken(p), LOWEST), LAMBDA r :
        R(r.p, PrefixExpression(p.curToken, p.curToken.Literal, r.v)))

parsePrefixExpression(p) ==
    With(parseExpression(nextToken(p), PREFIX), LAMBDA r :
        R(r.p, PrefixExpression(p.curToken, p.curToken.Literal, r.v)))

parseInfixExpression(p, left) ==
    With(parseExpression(nextToken(p), curPrecedence(p)), LAMBDA r :
        R(r.p, InfixExpression(p.curToken, left, p.curToken.Literal, r.v)))

parseBoolean(p) == R(p, Boolean(p.curToken, curTokenIs(p, TRUE_)))

parseGroupedExpression(p) ==
    With(parseExpression(nextToken(p), LOWEST), LAMBDA r :
        With(expectPeek(r.p, RPAREN), LAMBDA e :
            IF ~e.v THEN R(e.p, Nil) ELSE R(e.p, r.v)))

\* The loop of parseBlockStatement without its test for EOF.
blockLoop_noEOF(p, statements) ==
    IF ~curTokenIs(p, RBRACE)
    THEN IF Exhausted(p) THEN R(Cut(p), statements)
         ELSE With(parseStatement(Iter(p)), LAMBDA r :
                  blockLoop_noEOF(Iterated(p, nextToken(r.p)),
                                  IF r.v # Nil THEN Append(statements, r.v) ELSE statements))
    ELSE R(p, statements)

\* The loop of parseBlockStatement: v is block.Statements.
blockLoop(p, statements) ==
    IF ~curTokenIs(p, RBRACE) /\ ~curTokenIs(p, EOF)
    THEN IF Exhausted(p) THEN R(Cut(p), statements)
         ELSE With(parseStatement(Iter(p)), LAMBDA r :
                  blockLoop(Iterated(p, nextToken(r.p)),
                            IF r.v # Nil THEN Append(statements, r.v) ELSE statements))
    ELSE R(p, statements)

parseBlockStatement(p) ==
    With(blockLoop(nextToken(p), <<>>), LAMBDA r :
        R(r.p, BlockStatement(p.curToken, r.v)))

parseIfExpression(p) ==
    With(expectPeek(p, LPAREN), LAMBDA e1 :
        IF ~e1.v THEN R(e1.p, Nil)
        ELSE With(parseExpression(nextToken(e1.p), LOWEST), LAMBDA c :
            With(expectPeek(c.p, RPAREN), LAMBDA e2 :
                IF ~e2.v THEN R(e2.p, Nil)
                ELSE With(expectPeek(e2.p, LBRACE), LAMBDA e3 :
                    IF ~e3.v THEN R(e3.p, Nil)
                    ELSE With(parseBlockStatement(e3.p), LAMBDA b1 :
                        IF ~peekTokenIs(b1.p, ELSE_)
                        THEN R(b1.p, IfExpression(p.curToken, c.v, b1.v, NilBlockStatement))
                        ELSE With(expectPeek(nextToken(b1.p), LBRACE), LAMBDA e4 :
                            IF ~e4.v THEN R(e4.p, Nil)
                            ELSE With(parseBlockStatement(e4.p), LAMBDA b2 :
                                R(b2.p, IfExpression(p.curToken, c.v, b1.v, b2.v)))))))))

\* The loop of parseFunctionParameters: v is identifiers.
paramsLoop(p, identifiers) ==
    IF peekTokenIs(p, COMMA)
    THEN IF Exhausted(p) THEN R(Cut(p), identifiers)
         ELSE With(Iterated(p, nextToken(nextToken(Iter(p)))), LAMBDA p1 :
                  paramsLoop(p1, Append(identifiers,
                                        Identifier(p1.curToken, p1.curToken.Literal))))
    ELSE R(p, identifiers)

parseFunctionParameters(p) ==
    IF peekTokenIs(p, RPAREN) THEN R(nextToken(p), GoSlice(<<>>))
    ELSE With(nextToken(p), LAMBDA p1 :
        With(paramsLoop(p1, <<Identifier(p1.curToken, p1.curToken.Literal)>>), LAMBDA r :
            With(expectPeek(r.p, RPAREN), LAMBDA e :
                IF ~e.v THEN R(e.p, NilSlice) ELSE R(e.p, GoSlice(r.v)))))

parseFunctionLiteral(p) ==
    With(expectPeek(p, LPAREN), LAMBDA e1 :
        IF ~e1.v THEN R(e1.p, Nil)
        ELSE With(parseFunctionParameters(e1.p), LAMBDA ps :
            With(expectPeek(ps.p, LBRACE), LAMBDA e2 :
                IF ~e2.v THEN R(e2.p, Nil)
                ELSE With(parseBlockStatement(e2.p), LAMBDA b :
                    R(b.p, FunctionLiteral(p.curToken, ps.v, b.v))))))

\* The loop of parseCallArguments: v is args.
argsLoop(p, args) ==
    IF peekTokenIs(p, COMMA)
    THEN IF Exhausted(p) THEN R(Cut(p), args)
         ELSE With(parseExpression(nextToken(nextToken(Iter(p))), LOWEST), LAMBDA r :
                  argsLoop(Iterated(p, r.p), Append(args, r.v)))
    ELSE R(p, args)

parseCallArguments(p) ==
    IF peekTokenIs(p, RPAREN) THEN R(nextToken(p), GoSlice(<<>>))
    ELSE With(parseExpression(nextToken(p), LOWEST), LAMBDA a :
        With(argsLoop(a.p, <<a.v>>), LAMBDA r :
            With(expectPeek(r.p, RPAREN), LAMBDA e :
                IF ~e.v THEN R(e.p, NilSlice) ELSE R(e.p, GoSlice(r.v)))))

parseCallExpression(p, function) ==
    With(parseCallArguments(p), LAMBDA r :
        R(r.p, CallExpression(p.curToken, function, r.v)))

\* The token types New registers a prefix parse function for, and the call
\* of the function registered for the current token's type.
prefixRegistered == {IDENT, INT, BANG, MINUS, TRUE_, FALSE_, LPAREN, IF_, FUNCTION}

prefixParseFns(p) ==
    CASE p.curToken.Type = IDENT -> parseIdentifier(p)
      [] p.curToken.Type = INT -> parseIntegerLiteral(p)
      [] p.curToken.Type \in {BANG, MINUS} -> parsePrefixExpression(p)
      [] p.curToken.Type \in {TRUE_, FALSE_} -> parseBoolean(p)
      [] p.curToken.Type = LPAREN -> parseGroupedExpression(p)
      [] p.curToken.Type = IF_ -> parseIfExpression(p)
      [] p.curToken.Type = FUNCTION -> parseFunctionLiteral(p)

\* The infix registrations without the one for LPAREN.
infixRegistered_noCall == {PLUS, MINUS, SLASH, ASTERISK, EQ, NOT_EQ, LT, GT}

\* The same for the infix parse functions.
infixRegistered == {PLUS, MINUS, SLASH, ASTERISK, EQ, NOT_EQ, LT, GT, LPAREN}

infixParseFns(p, left) ==
    IF p.curToken.Type = LPAREN
    THEN parseCallExpression(p, left)
    ELSE parseInfixExpression(p, left)

\* parseExpression's loop found no infix parse function and returned
\* leftExp: p.g.missed records it.
Missed(p) == [p EXCEPT !.g.missed = TRUE]

\* The condition of parseExpression's loop with <= for <.
prattContinue_nonstrict(p, precedence) ==
    ~peekTokenIs(p, SEMICOLON) /\ precedence <= peekPrecedence(p)

\* The condition of parseExpression's loop.
prattContinue(p, precedence) ==
    ~peekTokenIs(p, SEMICOLON) /\ precedence < peekPrecedence(p)

\* The loop of parseExpression: v is leftExp.
prattLoop(p, leftExp, precedence) ==
    IF prattContinue(p, precedence)
    THEN IF p.peekToken.Type \notin infixRegistered THEN R(Missed(p), leftExp)
         ELSE IF Exhausted(p) THEN R(Cut(p), leftExp)
         ELSE With(infixParseFns(nextToken(Iter(p)), leftExp), LAMBDA r :
                  prattLoop(Iterated(p, r.p), r.v, precedence))
    ELSE R(p, leftExp)

parseExpression(p, precedence) ==
    IF p.curToken.Type \notin prefixRegistered
    THEN R(noPrefixParseFnError(Failed(p), p.curToken.Type), Nil)
    ELSE With(prefixParseFns(p), LAMBDA r : prattLoop(r.p, r.v, precedence))

\* parseStatement of the first draft, which parses let statements only.
parseStatement_letOnly(p) ==
    IF p.curToken.Type = LET_ THEN parseLetStatement(p) ELSE R(p, Nil)

parseStatement(p) ==
    CASE p.curToken.Type = LET_ -> parseLetStatement(p)
      [] p.curToken.Type = RETURN -> parseReturnStatement(p)
      [] OTHER -> parseExpressionStatement(p)

\* The body of ParseProgram's loop: v is program.Statements afterwards, stmt
\* what parseStatement returned and after the parser as it returned.
parseProgramIteration(p, statements) ==
    With(parseStatement(Iter(p)), LAMBDA r :
        [p |-> Iterated(p, nextToken(r.p)),
         v |-> IF r.v # Nil THEN Append(statements, r.v) ELSE statements,
         stmt |-> r.v, after |-> r.p])

(***************************************************************************)
(* Sources.  A source is written as a list of words, each a tuple of       *)
(* one-character strings, with one space between two words.                *)
(***************************************************************************)
Text(words) == Join([i \in 1..Len(words) |-> B(words[i])], B(<<" ">>))

\* All sequences over S of a length in lo..hi.
SeqsOf(S, lo, hi) == UNION {[1..n -> S] : n \in lo..hi}

BinOps == {<<"+">>, <<"-">>, <<"*">>, <<"/">>, <<"<">>, <<">">>, <<"=", "=">>, <<"!", "=">>}
PrefixOps == {<<"!">>, <<"-">>}
Names == << <<"a">>, <<"b">>, <<"c">>, <<"d">>, <<"e">>, <<"f">>, <<"g">> >>
Numbers == << <<"1">>, <<"2">>, <<"3">>, <<"4">>, <<"5">>, <<"6">>, <<"7">> >>

\* The most binary operators of a chain of plain operands.
MaxOps == 4
\* The most prefix operators before one operand.
MaxPre == 2

(***************************************************************************)
(* An expression chain: operand 1, ops[1], operand 2, ...  Operand i is    *)
(* the prefix operators pre[i], then its atom (Numbers[i] when digits,     *)
(* else Names[i]), then `(x)` when call[i].                                *)
(***************************************************************************)
PlainChains ==
    {[ops |-> ops, digits |-> digits, pre |-> [i \in 1..(Len(ops) + 1) |-> <<>>],
      call |-> [i \in 1..(Len(ops) + 1) |-> FALSE]] :
        ops \in SeqsOf(BinOps, 0, MaxOps), digits \in BOOLEAN}

PrefixedChains ==
    {[ops |-> ops, digits |-> FALSE, pre |-> pre, call |-> call] :
        ops \in SeqsOf(BinOps, 0, 1),
        pre \in SeqsOf(SeqsOf(PrefixOps, 0, MaxPre), 1, 2),
        call \in SeqsOf(BOOLEAN, 1, 2)}

Chains ==
    PlainChains
    \cup {c \in PrefixedChains : Len(c.pre) = Len(c.ops) + 1 /\ Len(c.call) = Len(c.ops) + 1}

Atom(c, i) == IF c.digits THEN Numbers[i] ELSE Names[i]

OperandWords(c, i) ==
    c.pre[i] \o <<Atom(c, i)>> \o (IF c.call[i] THEN << <<"(">>, <<"x">>, <<")">> >> ELSE <<>>)

ChainWords(c) ==
    Flatten([k \in 1..(2 * Len(c.ops) + 1) |->
        IF k % 2 = 1 THEN OperandWords(c, (k + 1) \div 2) ELSE <<c.ops[k \div 2]>>])

(***************************************************************************)
(* A program of statements, each `let <name> = <expr>`, `return <expr>` or *)
(* `<expr>` with an expression of the pool; with semi every statement ends *)
(* in `;`, without it none does.                                           *)
(***************************************************************************)
ExprPool ==
    << << <<"a">> >>,
       << <<"0", "0", "7">> >>,
       << <<"!">>, <<"t", "r", "u", "e">> >>,
       << <<"-">>, <<"a">>, <<"*">>, <<"b">>, <<"+">>, <<"c">> >>,
       << <<"(">>, <<"a">>, <<"+">>, <<"b">>, <<")">>, <<"*">>, <<"c">> >>,
       << <<"f">>, <<"(">>, <<"a">>, <<",">>, <<"b">>, <<"+">>, <<"c">>, <<")">> >>,
       << <<"i", "f">>, <<"(">>, <<"a">>, <<"<">>, <<"b">>, <<")">>, <<"{">>, <<"a">>, <<"}">>,
          <<"e", "l", "s", "e">>, <<"{">>, <<"r", "e", "t", "u", "r", "n">>, <<"b">>, <<";">>,
          <<"}">> >>,
       << <<"f", "n">>, <<"(">>, <<"x">>, <<",">>, <<"y">>, <<")">>, <<"{">>, <<"x">>, <<"+">>,
          <<"y">>, <<";">>, <<"}">> >> >>

StmtKinds == {"let", "return", "expr"}
StmtNames == << <<"x">>, <<"y">>, <<"z">>, <<"w">> >>

\* The most statements of a program.
MaxStmts == 2

Programs ==
    {[stmts |-> stmts, semi |-> semi] :
        stmts \in SeqsOf([kind : StmtKinds, e : 1..Len(ExprPool)], 0, MaxStmts),
        semi \in BOOLEAN}

\* The words of statement i, without its `;`.
StmtWords(g, i) ==
    CASE g.stmts[i].kind = "let" ->
            << <<"l", "e", "t">>, StmtNames[i], <<"=">> >> \o ExprPool[g.stmts[i].e]
      [] g.stmts[i].kind = "return" -> << <<"r", "e", "t", "u", "r", "n">> >> \o ExprPool[g.stmts[i].e]
      [] OTHER -> ExprPool[g.stmts[i].e]

ProgramWords(g) ==
    Flatten([i \in 1..Len(g.stmts) |->
        StmtWords(g, i) \o (IF g.semi THEN << <<";">> >> ELSE <<>>)])

(***************************************************************************)
(* Sources with errors in them: every sequence of at most MaxWords words   *)
(* of Vocabulary, and every one-statement program with one word left out.  *)
(***************************************************************************)
Vocabulary ==
    { <<"l", "e", "t">>, <<"r", "e", "t", "u", "r", "n">>, <<"i", "f">>, <<"f", "n">>,
      <<"x">>, <<"5">>, <<"0", "8">>, <<"=">>, <<";">>, <<"(">>, <<")">>, <<"{">>, <<"}">>,
      <<"+">>, <<"-">>, <<",">> }

\* The most words of a sequence of words.
MaxWords == 3

WordSoups == SeqsOf(Vocabulary, 0, MaxWords)

(***************************************************************************)
(* Sources for the lexer alone: every string of a few bytes over an        *)
(* alphabet with a byte of each class of NextToken's switch (the zero      *)
(* byte and a byte above 127 included), every byte value alone and between *)
(* two tokens, and words around the keywords.                              *)
(***************************************************************************)
MaxSrc == 4
MaxCalls == 7

LexAlphabet ==
    {0, Ord(" "), 10, Ord("a"), Ord("_"), Ord("1"), Ord("="), Ord("!"), Ord(";"), Ord("@"), 233}

ByteValues == 0..255

ShortSources == SeqsOf(LexAlphabet, 0, MaxSrc)

ByteSources ==
    {<<b>> : b \in ByteValues} \cup {<<Ord("a"), b, Ord("=")>> : b \in ByteValues}

Lexemes ==
    { <<"f", "n">>, <<"l", "e", "t">>, <<"t", "r", "u", "e">>, <<"f", "a", "l", "s", "e">>,
      <<"i", "f">>, <<"e", "l", "s", "e">>, <<"r", "e", "t", "u", "r", "n">>,
      <<"L", "e", "t">>, <<"I", "F">>, <<"l", "e", "t", "s">>, <<"_", "i", "f">>,
      <<"f", "o", "o", "1">>, <<"f", "n", "2", "x">>, <<"x", "_", "Y">>, <<"1", "2">>,
      <<"=", "=">>, <<"!", "=">>, <<"=">>, <<"!">>, <<"(">> }

LexemeSources ==
    {Flatten([i \in 1..Len(ws) |-> B(ws[i])]) : ws \in SeqsOf(Lexemes, 1, 2)}
    \cup {Text(ws) : ws \in SeqsOf(Lexemes, 2, 2)}

LexerSources == ShortSources \cup ByteSources \cup LexemeSources

(***************************************************************************)
(* Sources for the evaluator: programs of a few statements, most of them a *)
(* run of prefix operators before an operand of every kind of node (the    *)
(* kinds Eval has no case for and a missing operand included).             *)
(***************************************************************************)
MaxPrefix == 3
MaxEvalStmts == 2

EvalOperands ==
    { B(<<"5">>), B(<<"0">>), B(<<"1", "0">>),
      B(<<"9", "2", "2", "3", "3", "7", "2", "0", "3", "6", "8", "5", "4", "7", "7", "5", "8", "0", "7">>),
      B(<<"t", "r", "u", "e">>), B(<<"f", "a", "l", "s", "e">>),
      B(<<"a">>), B(<<"(", "1", " ", "+", " ", "2", ")">>), <<>> }

PrefixRuns == {B(ops) : ops \in SeqsOf({"!", "-"}, 0, MaxPrefix)}

OtherStatements ==
    { B(<<"l", "e", "t", " ", "x", " ", "=", " ", "5">>), B(<<"l", "e", "t", " ", "5">>),
      B(<<"r", "e", "t", "u", "r", "n", " ", "5">>),
      B(<<"i", "f", " ", "(", "x", ")", " ", "{", " ", "y", " ", "}">>) }

EvalStatements == {ops \o e : ops \in PrefixRuns, e \in EvalOperands} \cup OtherStatements

EvalPrograms == SeqsOf(EvalStatements, 0, MaxEvalStmts)

(***************************************************************************)
(* Sources for function literals: fn ( words ) { x } with every sequence   *)
(* of a few words between the parentheses.                                 *)
(***************************************************************************)
MaxParamWords == 4

ParamWords == { <<"x">>, <<"y">>, <<"1">>, <<",">>, <<"t", "r", "u", "e">> }

ParamLists == SeqsOf(ParamWords, 0, MaxParamWords)

FunctionWords(words) == << <<"f", "n">>, <<"(">> >> \o words \o << <<")">>, <<"{">>, <<"x">>, <<"}">> >>

\* The kinds expectPeek is called with, and two it is never called with.
ExpectedKinds == {IDENT, ASSIGN, LPAREN, RPAREN, LBRACE, SEMICOLON, INT}

MaxErrors == 2
MaxPeekWords == 2

PeekSources == SeqsOf(Vocabulary, 0, MaxPeekWords)

(***************************************************************************)
(* Sources with blocks: the start of an if expression or a function        *)
(* literal up to a {, followed by every sequence of a few words.           *)
(***************************************************************************)
MaxBodyWords == 3

BlockHeads ==
    { << <<"i", "f">>, <<"(">>, <<"x">>, <<")">>, <<"{">> >>,
      << <<"f", "n">>, <<"(">>, <<")">>, <<"{">> >>,
      << <<"f", "n">>, <<"(">>, <<"x">>, <<")">>, <<"{">> >>,
      << <<"i", "f">>, <<"(">>, <<"x">>, <<")">>, <<"{">>, <<"y">>, <<"}">>,
         <<"e", "l", "s", "e">>, <<"{">> >> }

BodyWords == { <<"x">>, <<"5">>, <<";">>, <<"}">>, <<"l", "e", "t">>, <<"=">> }

BlockSources == {h \o b : h \in BlockHeads, b \in SeqsOf(BodyWords, 0, MaxBodyWords)}

\* words without its word i
Without(words, i) == SubSeq(words, 1, i - 1) \o SubSeq(words, i + 1, Len(words))

OneStatementPrograms ==
    {[stmts |-> <<st>>, semi |-> TRUE] : st \in [kind : StmtKinds, e : 1..Len(ExprPool)]}

Damaged ==
    UNION {{Without(ProgramWords(g), i) : i \in 1..Len(ProgramWords(g))} :
              g \in OneStatementPrograms}

\* The runs of at most MaxDigits digits.
MaxDigits == 3

Digits == {<<"0">>, <<"1">>, <<"2">>, <<"3">>, <<"4">>, <<"5">>, <<"6">>, <<"7">>, <<"8">>, <<"9">>}

DigitRuns == {B(Flatten(ds)) : ds \in SeqsOf(Digits, 1, MaxDigits)}

\* Long runs of digits, about the length of 1<<63 - 1 in base 10 and in
\* base 8: two digits and MinTail to MaxTail times a third, and 1<<63 - 1
\* and 1<<63 themselves.
MinTail == 17
MaxTail == 20

LongRuns ==
    {B(d1 \o d2 \o Flatten([i \in 1..k |-> e])) :
        d1 \in Digits, d2 \in Digits, e \in Digits, k \in MinTail..MaxTail}
    \cup {B(<<"9", "2", "2", "3", "3", "7", "2", "0", "3", "6", "8", "5", "4", "7", "7", "5",
               "8", "0", last>>) : last \in {"7", "8"}}

\* What follows the run in the source, when something does.
AfterRun == B(<<" ", ";", " ", "a">>)

\* The decimal number that a run of digits denotes.
Decimal(run) == Int64(FALSE, StripZeros([i \in 1..Len(run) |-> run[i] - Ord("0")]))

\* The token a word lexes to.
WordToken(word) == NextToken(LexerNew(B(word))).tok

(***************************************************************************)
(* What a chain is to stringify to, from the grammar of the language and   *)
(* not from the parser: a prefix operator applies to the operand that      *)
(* follows it, a call belongs to the operand it follows, and a chain of    *)
(* binary operators splits at the last of its operators of the lowest      *)
(* level, the levels being == != below < > below + - below * /.            *)
(***************************************************************************)
Level(op) ==
    CASE op \in {<<"=", "=">>, <<"!", "=">>} -> 1
      [] op \in {<<"<">>, <<">">>} -> 2
      [] op \in {<<"+">>, <<"-">>} -> 3
      [] op \in {<<"*">>, <<"/">>} -> 4

Wrapped(pre, base) ==
    IF pre = <<>> THEN base
    ELSE B(<<"(">>) \o B(Head(pre)) \o Wrapped(Tail(pre), base) \o B(<<")">>)

RefOperand(c, i) ==
    Wrapped(c.pre[i], B(Atom(c, i)) \o (IF c.call[i] THEN B(<<"(", "x", ")">>) ELSE <<>>))

\* Operands lo..hi of the chain, with the operators lo..hi-1 between them.
RefChain(c, lo, hi) ==
    IF lo = hi THEN RefOperand(c, lo)
    ELSE LET lowest == {k \in lo..(hi - 1) : \A j \in lo..(hi - 1) : Level(c.ops[k]) <= Level(c.ops[j])}
             k == CHOOSE k \in lowest : \A j \in lowest : j <= k
         IN  B(<<"(">>) \o RefChain(c, lo, k) \o B(<<" ">>) \o B(c.ops[k]) \o B(<<" ">>)
             \o RefChain(c, k + 1, hi) \o B(<<")">>)

Ref(c) == RefChain(c, 1, Len(c.ops) + 1)

IsPlain(c) == \A i \in 1..Len(c.pre) : c.pre[i] = <<>> /\ ~c.call[i]

(***************************************************************************)
(* The nodes of a tree.                                                    *)
(***************************************************************************)
Elements(seq) == {seq[i] : i \in 1..Len(seq)}

Children(n) ==
    CASE n.node = "Program" -> Elements(n.Statements)
      [] n.node = "LetStatement" -> {n.Name, n.Value}
      [] n.node = "ReturnStatement" -> {n.ReturnValue}
      [] n.node = "ExpressionStatement" -> {n.Expression}
      [] n.node = "PrefixExpression" -> {n.Right}
      [] n.node = "InfixExpression" -> {n.Left, n.Right}
      [] n.node = "IfExpression" -> {n.Condition, n.Consequence, n.Alternative}
      [] n.node = "BlockStatement" -> Elements(n.Statements)
      [] n.node = "FunctionLiteral" -> Elements(n.Parameters.elems) \cup {n.Body}
      [] n.node = "CallExpression" -> {n.Function} \cup Elements(n.Arguments.elems)
      [] OTHER -> {}

Nodes(n) == {n} \cup UNION {Nodes(c) : c \in Children(n)}

(***************************************************************************)
(* package object.  An object.Object is a reference: NilObject is the nil  *)
(* interface value, every other reference is the place of an object in the *)
(* heap, a sequence that grows with each allocation.                       *)
(***************************************************************************)
INTEGER_OBJ == "INTEGER"
BOOLEAN_OBJ == "BOOLEAN"
NULL_OBJ == "NULL"

IntegerObject(value) == [Type |-> INTEGER_OBJ, Value |-> value]
BooleanObject(value) == [Type |-> BOOLEAN_OBJ, Value |-> value]
NullObject == [Type |-> NULL_OBJ]

NilObject == 0

\* An Environment: store is the map, a function from the names set so far
\* to references; g.sets is the record of the Set calls made on it.
Environment(store, sets) == [store |-> store, g |-> [sets |-> sets]]

NewEnvironment == Environment(<<>>, <<>>)

\* obj, ok := e.store[name]: the zero value and false for a missing key.
Environment_Get(e, name) ==
    IF name \in DOMAIN e.store
    THEN [obj |-> e.store[name], ok |-> TRUE]
    ELSE [obj |-> NilObject, ok |-> FALSE]

\* Set that keeps the binding a name already has.
Environment_Set_firstWins(e, name, val) ==
    [e |-> Environment([n \in DOMAIN e.store \cup {name} |->
                            IF n \in DOMAIN e.store THEN e.store[n] ELSE val],
                       Append(e.g.sets, [name |-> name, val |-> val])),
     v |-> val]

\* [e |-> the environment afterwards, v |-> the value returned]
Environment_Set(e, name, val) ==
    [e |-> Environment([n \in DOMAIN e.store \cup {name} |->
                            IF n = name THEN val ELSE e.store[n]],
                       Append(e.g.sets, [name |-> name, val |-> val])),
     v |-> val]

(***************************************************************************)
(* package evaluator.  NULL, TRUE and FALSE are the three objects that the *)
(* package's var block allocates.  The evaluator's world w is the heap,    *)
(* whether a panic is under way, and two records of what was done: the     *)
(* statements evalStatements gave to Eval and the calls of                 *)
(* evalPrefixExpression.  Every function returns Out(w, v): the world      *)
(* afterwards and the reference returned.                                  *)
(***************************************************************************)
NULL == 1
TRUE_OBJECT == 2
FALSE_OBJECT == 3

InitWorld ==
    [heap |-> <<NullObject, BooleanObject(TRUE), BooleanObject(FALSE)>>,
     panic |-> FALSE, evaluated |-> <<>>, calls |-> <<>>]

Out(w, v) == [w |-> w, v |-> v]

\* &object.T{...}
Alloc(w, obj) == Out([w EXCEPT !.heap = Append(@, obj)], Len(w.heap) + 1)

\* A run-time panic: nothing is returned.
Panics(w) == Out([w EXCEPT !.panic = TRUE], NilObject)

\* -value on an int64: 0 and -1<<63 are their own negations.
MinInt64Magnitude == <<9, 2, 2, 3, 3, 7, 2, 0, 3, 6, 8, 5, 4, 7, 7, 5, 8, 0, 8>>

Negate(value) ==
    IF value.mag = <<>> \/ (value.neg /\ value.mag = MinInt64Magnitude)
    THEN value
    ELSE Int64(~value.neg, value.mag)

\* nativeBoolToBooleanObject that allocates a Boolean for its result.
nativeBoolToBooleanObject_alloc(input, w) == Alloc(w, BooleanObject(input))

nativeBoolToBooleanObject(input, w) ==
    IF input THEN Out(w, TRUE_OBJECT) ELSE Out(w, FALSE_OBJECT)

\* evalBangOperatorExpression that takes NULL as any other operand.
evalBangOperatorExpression_nullFalse(right) ==
    CASE right = TRUE_OBJECT -> FALSE_OBJECT
      [] right = FALSE_OBJECT -> TRUE_OBJECT
      [] OTHER -> FALSE_OBJECT

evalBangOperatorExpression(right) ==
    CASE right = TRUE_OBJECT -> FALSE_OBJECT
      [] right = FALSE_OBJECT -> TRUE_OBJECT
      [] right = NULL -> TRUE_OBJECT
      [] OTHER -> FALSE_OBJECT

\* right.Type() on the nil interface value is a nil dereference.
evalMinusPrefixOperatorExpression(right, w) ==
    IF right = NilObject
    THEN Panics(w)
    ELSE IF w.heap[right].Type # INTEGER_OBJ
    THEN Out(w, NULL)
    ELSE Alloc(w, IntegerObject(Negate(w.heap[right].Value)))

evalPrefixOperator(operator, right, w) ==
    CASE operator = B(<<"!">>) -> Out(w, evalBangOperatorExpression(right))
      [] operator = B(<<"-">>) -> evalMinusPrefixOperatorExpression(right, w)
      [] OTHER -> Out(w, NULL)

\* evalPrefixExpression, with the call written to w.calls.
evalPrefixExpression(operator, right, w) ==
    With(evalPrefixOperator(operator, right, w), LAMBDA r :
        Out([r.w EXCEPT !.calls = Append(@, [operator |-> operator, right |-> right,
                                             returned |-> ~r.w.panic, v |-> r.v])],
            r.v))

\* The loop of evalStatements from statement i on; r holds result.
evalStatementsLoop(stmts, i, r) ==
    IF i > Len(stmts) \/ r.w.panic
    THEN r
    ELSE evalStatementsLoop(stmts, i + 1,
                            Eval(stmts[i], [r.w EXCEPT !.evaluated = Append(@, i)]))

evalStatements(stmts, w) == evalStatementsLoop(stmts, 1, Out(w, NilObject))

Eval(node, w) ==
    CASE node.node = "Program" -> evalStatements(node.Statements, w)
      [] node.node = "ExpressionStatement" -> Eval(node.Expression, w)
      [] node.node = "IntegerLiteral" -> Alloc(w, IntegerObject(node.Value))
      [] node.node = "Boolean" -> nativeBoolToBooleanObject(node.Value, w)
      [] node.node = "PrefixExpression" ->
            With(Eval(node.Right, w), LAMBDA right :
                IF right.w.panic
                THEN right
                ELSE evalPrefixExpression(node.Operator, right.v, right.w))
      [] OTHER -> Out(w, NilObject)

\* The names and objects given to the environment, and the most Set calls.
MaxSets == 3

EnvNames == {<<>>, B(<<"x">>), B(<<"y">>), B(<<"x", "y">>)}

EnvObjects == {NilObject, NULL, TRUE_OBJECT, FALSE_OBJECT}

VARIABLES
    gen,        \* what the source was generated from
    src,        \* the source text given to lexer.New
    round,      \* 1: the source is parsed; 2: the first round's String is parsed
    pc,         \* where the run is: "parsing", "parsed", "stringified"
    p,          \* the Parser
    program,    \* program.Statements of the Program being built by ParseProgram
    last,       \* the last top-level parseStatement: its result, the parser after it
    out,        \* what program.String() returned
    first,      \* the first round's program, errors and String
    l,          \* the Lexer that NextToken is called on directly
    toks,       \* the tokens those calls returned, each with the input it came from
    result,     \* what Eval(program) returned
    env         \* the Environment that Get and Set are called on

vars == <<gen, src, round, pc, p, program, last, out, first, l, toks, result, env>>

NoLast == [stmt |-> Nil, cur |-> ZeroToken, peek |-> ZeroToken]
NoFirst == [program |-> <<>>, out |-> Ok(<<>>)]
NotEvaluated == [tag |-> "not evaluated"]

\* The state after lexer.New(source) and parser.New(l), as ParseProgram is called.
Start(g, source) ==
    /\ gen = g
    /\ src = source
    /\ round = 1
    /\ pc = "parsing"
    /\ p = New(LexerNew(source))
    /\ program = <<>>
    /\ last = NoLast
    /\ out = Ok(<<>>)
    /\ first = NoFirst
    /\ l = LexerNew(source)
    /\ toks = <<>>
    /\ result = NotEvaluated
    /\ env = NewEnvironment

\* One iteration of ParseProgram's loop.
ParseProgramStep ==
    /\ pc = "parsing"
    /\ ~curTokenIs(p, EOF)
    /\ ~p.g.cut
    /\ IF Exhausted(p)
       THEN /\ p' = Cut(p)
            /\ UNCHANGED <<program, last, env>>
       ELSE \E r \in {parseProgramIteration(p, program)} :
                /\ p' = r.p
                /\ program' = r.v
                /\ last' = [stmt |-> r.stmt, cur |-> r.after.curToken,
                            peek |-> r.after.peekToken]
    /\ UNCHANGED <<gen, src, round, pc, out, first, l, toks, result, env>>

\* ParseProgram's loop ends and it returns the program.
ParseProgramReturn ==
    /\ pc = "parsing"
    /\ curTokenIs(p, EOF)
    /\ pc' = "parsed"
    /\ UNCHANGED <<gen, src, round, p, program, last, out, first, l, toks, result, env>>

\* program.String()
Stringify ==
    /\ pc = "parsed"
    /\ out' = Program_String(Program(program))
    /\ pc' = "stringified"
    /\ UNCHANGED <<gen, src, round, p, program, last, first, l, toks, result, env>>

\* The String of a program parsed without errors is given to a new lexer
\* and parser.
RoundTrip ==
    /\ pc = "stringified"
    /\ round = 1
    /\ Errors(p) = <<>>
    /\ out.ok
    /\ first' = [program |-> program, out |-> out]
    /\ src' = out.s
    /\ round' = 2
    /\ pc' = "parsing"
    /\ p' = New(LexerNew(out.s))
    /\ program' = <<>>
    /\ last' = NoLast
    /\ UNCHANGED <<gen, out, l, toks, result, env>>

Next == ParseProgramStep \/ ParseProgramReturn \/ Stringify \/ RoundTrip

\* One call of l.NextToken() on the lexer lexer.New(src) returned.  The token
\* is recorded with the part of the input it was made from: from is the
\* position after skipWhitespace, to the position as NextToken returns, and
\* atEnd tells whether from is at or past the end of the input.
NextTokenCall ==
    /\ pc = "lexing"
    /\ Len(toks) < MaxCalls
    /\ \E r \in {NextToken(l)}, from \in {skipWhitespace(l).position} :
           /\ l' = r.l
           /\ toks' = Append(toks, [tok |-> r.tok, from |-> from, to |-> r.l.position,
                                    atEnd |-> from >= Len(l.input)])
    /\ UNCHANGED <<gen, src, round, pc, p, program, last, out, first, result, env>>

NextLex == NextTokenCall

\* One call of p.expectPeek(t) on the parser parser.New returned or an
\* earlier call left, with any kind of token expected.
ExpectPeekCall ==
    /\ pc = "expecting"
    /\ ~curTokenIs(p, EOF)
    /\ Len(Errors(p)) < MaxErrors
    /\ \E t \in ExpectedKinds :
           \E r \in {expectPeek(p, t)} :
               /\ p' = r.p
               /\ last' = [t |-> t, v |-> r.v]
    /\ UNCHANGED <<gen, src, round, pc, program, out, first, l, toks, result, env>>

NextPeek == ExpectPeekCall

\* One call of the draft parser's parseLetStatement, which skips to the
\* semicolon, with a let token as current token.  A loop that goes on
\* without end is cut (p.g.cut) at the first iteration that consumes nothing.
DraftParseLetStatement ==
    /\ pc = "draft"
    /\ curTokenIs(p, LET_)
    /\ \E r \in {parseLetStatement_skipping(p)} :
           /\ p' = r.p
           /\ last' = [stmt |-> r.v, cur |-> r.p.curToken, peek |-> r.p.peekToken]
    /\ pc' = "returned"
    /\ UNCHANGED <<gen, src, round, program, out, first, l, toks, result, env>>

NextDraft == DraftParseLetStatement

\* e.Set(name, val) and e.Get(name) on the environment NewEnvironment
\* returned, with any name and any object.
SetCall ==
    /\ pc = "env"
    /\ Len(env.g.sets) < MaxSets
    /\ \E name \in EnvNames, val \in EnvObjects :
           \E r \in {Environment_Set(env, name, val)} :
               /\ env' = r.e
               /\ last' = [op |-> "Set", name |-> name, val |-> val, v |-> r.v]
    /\ UNCHANGED <<gen, src, round, pc, p, program, out, first, l, toks, result>>

GetCall ==
    /\ pc = "env"
    /\ \E name \in EnvNames :
           \E r \in {Environment_Get(env, name)} :
               last' = [op |-> "Get", name |-> name, obj |-> r.obj, ok |-> r.ok]
    /\ UNCHANGED <<gen, src, round, pc, p, program, out, first, l, toks, result, env>>

NextEnv == SetCall \/ GetCall

\* Eval(program) that also drops the program's first statement.
Evaluate_consuming ==
    /\ pc = "parsed"
    /\ result' = Eval(Program(program), InitWorld)
    /\ program' = IF program = <<>> THEN program ELSE Tail(program)
    /\ pc' = "evaluated"
    /\ UNCHANGED <<gen, src, round, p, last, out, first, l, toks, env>>

\* Eval(program) on the program ParseProgram returned.
Evaluate ==
    /\ pc = "parsed"
    /\ result' = Eval(Program(program), InitWorld)
    /\ pc' = "evaluated"
    /\ UNCHANGED <<gen, src, round, p, program, last, out, first, l, toks, env>>

NextEval == ParseProgramStep \/ ParseProgramReturn \/ Evaluate

\* Eval(program) another time, on the same program, in the world the first
\* call left (the heap with what it allocated).
EvaluateAgain ==
    /\ pc = "evaluated"
    /\ round = 1
    /\ ~result.w.panic
    /\ first' = [program |-> program, out |-> out, result |-> result]
    /\ result' = Eval(Program(program), [result.w EXCEPT !.evaluated = <<>>, !.calls = <<>>])
    /\ round' = 2
    /\ UNCHANGED <<gen, src, pc, p, program, last, out, l, toks, env>>

\* program.String() another time, on the same program.
StringifyAgain ==
    /\ pc = "stringified"
    /\ round = 1
    /\ out.ok
    /\ first' = [program |-> program, out |-> out, result |-> result]
    /\ out' = Program_String(Program(program))
    /\ round' = 2
    /\ UNCHANGED <<gen, src, pc, p, program, last, result, l, toks, env>>

NextTwice ==
    \/ ParseProgramStep
    \/ ParseProgramReturn
    \/ Evaluate
    \/ EvaluateAgain
    \/ Stringify
    \/ StringifyAgain

\* The state after lexer.New(source), before the first NextToken call.
StartLexer(g, source) ==
    /\ gen = g
    /\ src = source
    /\ round = 1
    /\ pc = "lexing"
    /\ p = New(LexerNew(source))
    /\ program = <<>>
    /\ last = NoLast
    /\ out = Ok(<<>>)
    /\ first = NoFirst
    /\ l = LexerNew(source)
    /\ toks = <<>>
    /\ result = NotEvaluated
    /\ env = NewEnvironment

(***************************************************************************)
(* C1.  An expression of identifiers or integers and the binary operators  *)
(* + - * / < > == != parses without errors and stringifies to its fully    *)
(* parenthesized form: an operator of a higher level binds tighter, and    *)
(* operators of one level group from left to right.                        *)
(***************************************************************************)
C1_PrecedenceAndAssociativity ==
    (pc = "stringified" /\ round = 1 /\ gen.kind = "chain" /\ IsPlain(gen.chain))
        => (Errors(p) = <<>> /\ out = Ok(Ref(gen.chain)))

C1_Witness ==
    /\ pc = "stringified"
    /\ round = 1
    /\ src = B(<<"a", " ", "+", " ", "b", " ", "*", " ", "c", " ", "+", " ", "d", " ", "/", " ", "e">>)
    /\ out = Ok(B(<<"(", "(", "a", " ", "+", " ", "(", "b", " ", "*", " ", "c", ")", ")",
                    " ", "+", " ", "(", "d", " ", "/", " ", "e", ")", ")">>))

(***************************************************************************)
(* C2.  A prefix operator binds tighter than every binary operator and a   *)
(* call binds tighter than a prefix operator: no prefix expression has a   *)
(* binary-operator expression as its operand unless the source put it in   *)
(* parentheses, and a call that follows the operand is part of it.         *)
(***************************************************************************)
C2_PrefixBindsTighter ==
    (pc = "stringified" /\ round = 1 /\ gen.kind = "chain" /\ ~IsPlain(gen.chain))
        => /\ Errors(p) = <<>>
           /\ out = Ok(Ref(gen.chain))
           /\ \A n \in Nodes(Program(program)) :
                 n.node = "PrefixExpression" => n.Right.node # "InfixExpression"

C2_Witness ==
    /\ pc = "stringified"
    /\ round = 1
    /\ src = B(<<"-", " ", "a", " ", "(", " ", "x", " ", ")", " ", "*", " ", "!", " ", "-", " ", "b">>)
    /\ out = Ok(B(<<"(", "(", "-", "a", "(", "x", ")", ")", " ", "*", " ",
                    "(", "!", "(", "-", "b", ")", ")", ")">>))

(***************************************************************************)
(* C4.  A source of N statements `let <ident> = <expr>;`, `return <expr>;` *)
(* or `<expr>;` parses without errors to exactly N statements in source    *)
(* order, statement i of the type of its form and with the literal of its  *)
(* first token as token literal.                                           *)
(***************************************************************************)
StmtNode(kind) ==
    CASE kind = "let" -> "LetStatement"
      [] kind = "return" -> "ReturnStatement"
      [] OTHER -> "ExpressionStatement"

C4_StatementsInOrder ==
    (round = 1 /\ gen.kind = "program" /\ gen.prog.semi)
        => /\ Errors(p) = <<>>
           /\ Len(program) <= Len(gen.prog.stmts)
           /\ \A i \in 1..Len(program) :
                 /\ program[i].node = StmtNode(gen.prog.stmts[i].kind)
                 /\ program[i].Token.Literal = B(StmtWords(gen.prog, i)[1])
           /\ pc # "parsing" => Len(program) = Len(gen.prog.stmts)

C4_Witness ==
    /\ round = 1
    /\ pc = "parsed"
    /\ gen.kind = "program"
    /\ gen.prog.semi
    /\ Len(program) = 2
    /\ program[1].node = "ExpressionStatement"
    /\ program[1].Token.Literal = B(<<"i", "f">>)
    /\ program[2].node = "LetStatement"

(***************************************************************************)
(* C5.  `let <ident> = <expr>`, with or without a `;` after it, parses to  *)
(* a LetStatement whose Name is the identifier and whose Value is the      *)
(* expression as parseExpression(LOWEST) parses it; afterwards the current *)
(* token is the `;` when there is one and else the expression's last.      *)
(***************************************************************************)
\* The first statement is a let statement that the source ends or a `;` ends.
LetFirst ==
    /\ round = 1
    /\ gen.kind = "program"
    /\ Len(gen.prog.stmts) >= 1
    /\ gen.prog.stmts[1].kind = "let"
    /\ gen.prog.semi \/ Len(gen.prog.stmts) = 1
    /\ Len(program) = 1

\* The expression of the pool parsed alone, at LOWEST.
Alone(e) == parseExpression(New(LexerNew(Text(ExprPool[e]))), LOWEST).v

C5_LetKeepsValue ==
    LetFirst =>
        LET e == gen.prog.stmts[1].e
        IN  /\ last.stmt = program[1]
            /\ last.stmt.node = "LetStatement"
            /\ last.stmt.Token = Token(LET_, B(<<"l", "e", "t">>))
            /\ last.stmt.Name.node = "Identifier"
            /\ last.stmt.Name.Value = B(StmtNames[1])
            /\ last.stmt.Name.Token = Token(IDENT, B(StmtNames[1]))
            /\ last.stmt.Value # Nil
            /\ last.stmt.Value = Alone(e)
            /\ last.cur = IF gen.prog.semi THEN Token(SEMICOLON, B(<<";">>))
                          ELSE WordToken(ExprPool[e][Len(ExprPool[e])])
            /\ Len(gen.prog.stmts) = 1 => last.peek = Token(EOF, <<>>)

C5_Witness ==
    /\ LetFirst
    /\ ~gen.prog.semi
    /\ last.stmt.node = "LetStatement"
    /\ last.stmt.Value.node = "InfixExpression"
    /\ last.cur = Token(IDENT, B(<<"c">>))

(***************************************************************************)
(* C3.  The String of a program parsed without errors is a fixed point:    *)
(* parsed again it gives no errors and the same String.                    *)
(***************************************************************************)
C3_RoundTripFixedPoint ==
    (round = 2 /\ pc = "stringified") => (Errors(p) = <<>> /\ out = first.out)

\* The programs of which it does hold: those with no if expression and no
\* function literal, in which every statement but the last is a let or a
\* return statement.
FixedPointClass(statements) ==
    /\ \A n \in Nodes(Program(statements)) : n.node \notin {"IfExpression", "FunctionLiteral"}
    /\ \A i \in 1..(Len(statements) - 1) :
          statements[i].node \in {"LetStatement", "ReturnStatement"}

\* C3, amended: the String of a program of that class, parsed without
\* errors, is a fixed point.
C3_RoundTripFixedPointAmended ==
    (round = 2 /\ pc = "stringified" /\ FixedPointClass(first.program))
        => (Errors(p) = <<>> /\ out = first.out)

C3_Witness ==
    /\ round = 2
    /\ pc = "stringified"
    /\ FixedPointClass(first.program)
    /\ Len(first.program) = 2
    /\ first.program[2].node = "ExpressionStatement"
    /\ first.program[2].Expression.node = "CallExpression"
    /\ out = first.out

(***************************************************************************)
(* C6.  A let statement whose expectPeek fails adds no entry to            *)
(* Program.Statements: every element of Program.Statements is a non-null   *)
(* statement, and every LetStatement in it has a non-null Name.            *)
(***************************************************************************)
C6_AbortedLetAddsNoEntry ==
    \A i \in 1..Len(program) :
        /\ program[i] \notin {Nil, NilLetStatement}
        /\ program[i].node = "LetStatement" => program[i].Name # Nil

(***************************************************************************)
(* C7.  A program parsed without errors is well-formed: no statement of    *)
(* Program.Statements or of a block is null, and no node has a null Name,  *)
(* Value, expression, operand, condition, consequence, body, callee,       *)
(* parameter list, parameter or argument.                                  *)
(***************************************************************************)
Nulls == {Nil, NilLetStatement, NilBlockStatement}

WellFormedNode(n) ==
    CASE n.node = "IfExpression" ->
            n.Condition \notin Nulls /\ n.Consequence \notin Nulls /\ n.Alternative # Nil
      [] n.node = "FunctionLiteral" ->
            ~n.Parameters.isNil /\ Children(n) \cap Nulls = {}
      [] n.node = "CallExpression" ->
            ~n.Arguments.isNil /\ Children(n) \cap Nulls = {}
      [] OTHER -> Children(n) \cap Nulls = {}

WellFormed(statements) ==
    \A n \in Nodes(Program(statements)) : n \notin Nulls => WellFormedNode(n)

C7_NoErrorsWellFormed ==
    (pc # "parsing" /\ Errors(p) = <<>>) => WellFormed(program)

C7_Witness ==
    /\ round = 1
    /\ pc = "parsed"
    /\ Errors(p) = <<>>
    /\ gen.kind = "words"
    /\ Len(program) = 1
    /\ \E n \in Nodes(Program(program)) :
          n.node = "FunctionLiteral" /\ Len(n.Body.Statements) = 1
    /\ WellFormed(program)

(***************************************************************************)
(* C8.  The errors list is as long as the failure events so far are many   *)
(* (failed expectPeek calls, parseExpression calls without a prefix parse  *)
(* function, integer literals that do not convert), and a parse only ever  *)
(* appends to it.                                                          *)
(***************************************************************************)
C8_ErrorsCountFailures ==
    /\ [](Len(p.errors) = p.g.events)
    /\ [][round' = round =>
            /\ Len(p'.errors) >= Len(p.errors)
            /\ SubSeq(p'.errors, 1, Len(p.errors)) = p.errors]_vars

C8_Witness ==
    /\ pc = "parsed"
    /\ Len(p.errors) = 3
    /\ p.g.events = 3
    /\ {p.errors[i].msg : i \in 1..3} =
          {"expected next token to be %s, got %s",
           "no prefix parse function for %s found",
           "could not parse %q as integer"}

(***************************************************************************)
(* C9.  ParseProgram returns for every source, whatever errors occur: no   *)
(* loop runs on without end, every iteration of a loop consumes a token,   *)
(* every iteration of ParseProgram's loop lowers what is left to consume   *)
(* (a natural number, so the loop ends), an iteration is there to take     *)
(* while the current token is not EOF, and on return it is EOF.            *)
(***************************************************************************)
C9_ParseProgramTerminates ==
    /\ [](~p.g.cut /\ ~p.g.stalled /\ ~Exhausted(p))
    /\ [](pc # "parsing" => curTokenIs(p, EOF))
    /\ [][(pc = "parsing" /\ pc' = "parsing" /\ round' = round)
            => Unconsumed(p') < Unconsumed(p)]_vars

C9_Witness ==
    /\ pc = "parsed"
    /\ round = 1
    /\ Len(p.errors) >= 2
    /\ Len(program) >= 2
    /\ curTokenIs(p, EOF)
    /\ \E n \in Nodes(Program(program)) : n.node = "BlockStatement"

(***************************************************************************)
(* C10.  A run of digits parses, without an error, to an IntegerLiteral    *)
(* whose Value is the decimal number the run denotes and whose token       *)
(* literal is the run, a run that starts with the digit 0 included.        *)
(***************************************************************************)
\* The run denotes a decimal number of 0..1<<63 - 1.
InRange(run) == AtMost([i \in 1..Len(run) |-> run[i] - Ord("0")], MaxInt64Digits(10))

C10_DecimalValue ==
    (round = 1 /\ gen.kind = "int" /\ InRange(gen.run) /\ pc = "parsed")
        => /\ Errors(p) = <<>>
           /\ Len(program) = (IF gen.more THEN 2 ELSE 1)
           /\ program[1].node = "ExpressionStatement"
           /\ program[1].Expression = IntegerLiteral(Token(INT, gen.run), Decimal(gen.run))

(***************************************************************************)
(* C11.  A run of digits that denotes a number above 1<<63 - 1 gives no    *)
(* IntegerLiteral: parseIntegerLiteral returns nil and appends the one     *)
(* message `could not parse "<literal>" as integer`, and the parse goes on *)
(* with the tokens that follow.                                            *)
(***************************************************************************)
C11_OutOfRangeIsAnError ==
    (round = 1 /\ gen.kind = "int" /\ ~InRange(gen.run) /\ pc = "parsed")
        => /\ Errors(p) = <<[msg |-> "could not parse %q as integer", literal |-> gen.run]>>
           /\ \A n \in Nodes(Program(program)) : n.node # "IntegerLiteral"
           /\ program[1] = ExpressionStatement(Token(INT, gen.run), Nil)
           /\ Len(program) = (IF gen.more THEN 2 ELSE 1)
           /\ gen.more => program[2].Expression = Identifier(Token(IDENT, B(<<"a">>)), B(<<"a">>))

InitExpr == \E c \in Chains : Start([kind |-> "chain", chain |-> c], Text(ChainWords(c)))

SpecExpr == InitExpr /\ [][Next]_vars

InitProg == \E g \in Programs : Start([kind |-> "program", prog |-> g], Text(ProgramWords(g)))

SpecProg == InitProg /\ [][Next]_vars

InitInt ==
    \E run \in DigitRuns \cup LongRuns, more \in BOOLEAN :
        Start([kind |-> "int", run |-> run, more |-> more],
              IF more THEN run \o AfterRun ELSE run)

SpecInt == InitInt /\ [][Next]_vars

(***************************************************************************)
(* C12.  Lexing is total and loses nothing: for every source, whatever its *)
(* bytes, the calls of NextToken return an EOF token after finitely many   *)
(* calls (at most one call per byte and one more), and every byte of the   *)
(* source that is not a space, tab, newline or carriage return lies in the *)
(* part of the input that a token returned before that first EOF was made  *)
(* from.                                                                   *)
(***************************************************************************)
HasEOF(ts) == \E k \in 1..Len(ts) : ts[k].tok.Type = EOF

FirstEOF(ts) ==
    CHOOSE k \in 1..Len(ts) :
        ts[k].tok.Type = EOF /\ \A j \in 1..(k - 1) : ts[j].tok.Type # EOF

CoveredBefore(ts, k, i) == \E j \in 1..(k - 1) : ts[j].from < i /\ i <= ts[j].to

C12_LexingTotalNothingLost ==
    /\ Len(toks) >= Len(src) + 1 => HasEOF(toks)
    /\ HasEOF(toks) =>
          \A i \in 1..Len(src) :
              ~isWhitespace(src[i]) => CoveredBefore(toks, FirstEOF(toks), i)

(***************************************************************************)
(* C13.  Once the lexer is past the last byte of the source, every further *)
(* NextToken call returns a token of kind EOF with an empty literal and    *)
(* leaves the lexer past the end: no call fails or returns another kind.   *)
(***************************************************************************)
C13_EOFForever ==
    [][l.position >= Len(src)
          => /\ Len(toks') = Len(toks) + 1
             /\ toks'[Len(toks')].tok = Token(EOF, <<>>)
             /\ l'.position >= Len(src)]_vars

C13_Witness ==
    /\ src = B(<<"a", "=">>)
    /\ Len(toks) = 6
    /\ \A k \in 3..6 : toks[k].atEnd /\ toks[k].tok = Token(EOF, <<>>)
    /\ toks[2].tok = Token(ASSIGN, B(<<"=">>))

(***************************************************************************)
(* C14.  The literal of every token NextToken returns is the part of the   *)
(* source it was made from, byte for byte: the run of an identifier or an  *)
(* integer, the two bytes of == and !=, the one byte of every other        *)
(* operator, delimiter and ILLEGAL token, and the empty string for EOF.    *)
(***************************************************************************)
C14_LiteralIsSourceSubstring ==
    \A k \in 1..Len(toks) :
        IF toks[k].tok.Type = EOF
        THEN toks[k].tok.Literal = <<>>
        ELSE toks[k].tok.Literal = InputSlice(src, toks[k].from, toks[k].to)

(***************************************************************************)
(* C15.  A token that starts at an ASCII letter or _ is the longest run of *)
(* ASCII letters and _ from there: it holds no digit and stops before the  *)
(* first byte that is not a letter or _.  Its kind is the keyword kind     *)
(* when the run is one of fn, let, true, false, if, else, return, in       *)
(* exactly that case, and IDENT otherwise; no other token has one of       *)
(* these kinds.                                                            *)
(***************************************************************************)
AsciiLetters == (65..90) \cup (97..122) \cup {95}

IdentifierKinds == {IDENT, FUNCTION, LET_, TRUE_, FALSE_, IF_, ELSE_, RETURN}

KindOfRun(run) ==
    CASE run = B(<<"f", "n">>) -> FUNCTION
      [] run = B(<<"l", "e", "t">>) -> LET_
      [] run = B(<<"t", "r", "u", "e">>) -> TRUE_
      [] run = B(<<"f", "a", "l", "s", "e">>) -> FALSE_
      [] run = B(<<"i", "f">>) -> IF_
      [] run = B(<<"e", "l", "s", "e">>) -> ELSE_
      [] run = B(<<"r", "e", "t", "u", "r", "n">>) -> RETURN
      [] OTHER -> IDENT

StartsAtLetter(t) == ~t.atEnd /\ src[t.from + 1] \in AsciiLetters

C15_IdentifierIsLetterRun ==
    \A k \in 1..Len(toks) :
        /\ toks[k].tok.Type \in IdentifierKinds <=> StartsAtLetter(toks[k])
        /\ StartsAtLetter(toks[k]) =>
              /\ toks[k].to > toks[k].from
              /\ toks[k].tok.Literal = InputSlice(src, toks[k].from, toks[k].to)
              /\ \A i \in (toks[k].from + 1)..toks[k].to : src[i] \in AsciiLetters
              /\ toks[k].to < Len(src) => src[toks[k].to + 1] \notin AsciiLetters
              /\ toks[k].tok.Type = KindOfRun(toks[k].tok.Literal)

C15_Witness ==
    /\ src = B(<<"l", "e", "t", " ", "f", "o", "o", "1">>)
    /\ Len(toks) = 4
    /\ toks[1].tok = Token(LET_, B(<<"l", "e", "t">>))
    /\ toks[2].tok = Token(IDENT, B(<<"f", "o", "o">>))
    /\ toks[3].tok = Token(INT, B(<<"1">>))
    /\ toks[4].tok = Token(EOF, <<>>)

(***************************************************************************)
(* C16.  Eval never aborts: for every program ParseProgram returned, with  *)
(* or without errors and whatever the kinds of its nodes, Eval(program)    *)
(* returns (an object or the absent value) and does not panic.             *)
(***************************************************************************)
C16_EvalNeverPanics == pc = "evaluated" => ~result.w.panic

(***************************************************************************)
(* C17.  Evaluating a prefix - gives a new Integer(-n), negated with the   *)
(* wrap of a signed 64-bit number, when the operand evaluated to           *)
(* Integer(n), and the canonical NULL for every other operand: a Boolean,  *)
(* NULL, or an operand whose evaluation gave the absent value.             *)
(***************************************************************************)
MinusCalls == {k \in 1..Len(result.w.calls) : result.w.calls[k].operator = B(<<"-">>)}

IsInteger(ref) == ref # NilObject /\ result.w.heap[ref].Type = INTEGER_OBJ

Opposite(value) ==
    CASE value.mag = <<>> -> Int64(FALSE, <<>>)
      [] value = Int64(TRUE, MinInt64Magnitude) -> value
      [] OTHER -> Int64(~value.neg, value.mag)

C17_MinusNegatesOrNull ==
    pc = "evaluated" =>
        \A k \in MinusCalls :
            /\ result.w.calls[k].returned
            /\ IF IsInteger(result.w.calls[k].right)
               THEN /\ IsInteger(result.w.calls[k].v)
                    /\ result.w.heap[result.w.calls[k].v].Value
                         = Opposite(result.w.heap[result.w.calls[k].right].Value)
               ELSE result.w.calls[k].v = NULL

(***************************************************************************)
(* C18.  Evaluating a prefix ! gives FALSE for TRUE, TRUE for FALSE, TRUE  *)
(* for NULL and FALSE for every other operand (every Integer, 0 included,  *)
(* and the absent value): the result is always one of the two canonical    *)
(* booleans, and !!e is TRUE exactly when e gave something other than      *)
(* FALSE and NULL.                                                         *)
(***************************************************************************)
BangCalls == {k \in 1..Len(result.w.calls) : result.w.calls[k].operator = B(<<"!">>)}

C18_BangTable ==
    pc = "evaluated" =>
        /\ \A k \in BangCalls :
              /\ result.w.calls[k].returned
              /\ result.w.calls[k].v \in {TRUE_OBJECT, FALSE_OBJECT}
              /\ result.w.calls[k].v = TRUE_OBJECT
                    <=> result.w.calls[k].right \in {FALSE_OBJECT, NULL}
        /\ \A k \in BangCalls :
              (k + 1 \in BangCalls /\ result.w.calls[k + 1].right = result.w.calls[k].v)
                  => (result.w.calls[k + 1].v = TRUE_OBJECT
                         <=> result.w.calls[k].right \notin {FALSE_OBJECT, NULL})

C18_Witness ==
    /\ pc = "evaluated"
    /\ src = B(<<"!", "-", "t", "r", "u", "e", ";", " ", "!", "!", "5">>)
    /\ Len(result.w.calls) = 4
    /\ result.w.calls[2] = [operator |-> B(<<"!">>), right |-> NULL, returned |-> TRUE,
                            v |-> TRUE_OBJECT]
    /\ IsInteger(result.w.calls[3].right)
    /\ result.w.calls[3].v = FALSE_OBJECT
    /\ result.w.calls[4].right = FALSE_OBJECT
    /\ result.v = TRUE_OBJECT

(***************************************************************************)
(* C19.  Boolean and null results are singletons: every Boolean or Null    *)
(* that Eval or one of its prefix evaluations returns is one of the three  *)
(* objects NULL, TRUE, FALSE made at initialization; Eval allocates        *)
(* nothing but Integers and leaves the three as they were made.            *)
(***************************************************************************)
Canonical == {NULL, TRUE_OBJECT, FALSE_OBJECT}

Returned == {result.v} \cup {result.w.calls[k].v : k \in 1..Len(result.w.calls)}

C19_Singletons ==
    pc = "evaluated" =>
        /\ result.w.heap[NULL] = NullObject
        /\ result.w.heap[TRUE_OBJECT] = BooleanObject(TRUE)
        /\ result.w.heap[FALSE_OBJECT] = BooleanObject(FALSE)
        /\ \A ref \in 1..Len(result.w.heap) :
              ref \notin Canonical => result.w.heap[ref].Type = INTEGER_OBJ
        /\ \A ref \in Returned :
              (ref # NilObject /\ result.w.heap[ref].Type \in {BOOLEAN_OBJ, NULL_OBJ})
                  => ref \in Canonical

C19_Witness ==
    /\ pc = "evaluated"
    /\ src = B(<<"-", "t", "r", "u", "e", ";", " ", "!", "f", "a", "l", "s", "e">>)
    /\ result.w.calls[1].right = TRUE_OBJECT
    /\ result.w.calls[1].v = NULL
    /\ result.w.calls[2].right = FALSE_OBJECT
    /\ result.v = TRUE_OBJECT
    /\ Len(result.w.heap) = 3

(***************************************************************************)
(* C20.  Eval of a Program gives every statement to Eval once, in source   *)
(* order, and returns what the last statement gave, whatever the earlier   *)
(* statements gave; for a program without statements it returns the absent *)
(* value.                                                                  *)
(***************************************************************************)
SameObject(a, b) ==
    IF a.v = NilObject \/ b.v = NilObject
    THEN a.v = b.v
    ELSE /\ a.w.heap[a.v] = b.w.heap[b.v]
         /\ (a.v \in Canonical \/ b.v \in Canonical) => a.v = b.v

C20_LastStatementResult ==
    pc = "evaluated" =>
        /\ result.w.evaluated = [i \in 1..Len(program) |-> i]
        /\ ~result.w.panic
        /\ IF program = <<>>
           THEN result.v = NilObject
           ELSE SameObject(result, Eval(program[Len(program)], InitWorld))

(***************************************************************************)
(* C21.  Stringification is total: for every program ParseProgram returns, *)
(* the partial trees returned after parse errors included, String()        *)
(* returns, and what it returns follows the rules: ( operator right ) for  *)
(* a prefix expression, ( left operator right ) with single spaces for an  *)
(* infix expression, let name = value; for a let statement, the value left *)
(* out when there is none.                                                 *)
(***************************************************************************)
FollowsRule(n) ==
    CASE n.node = "PrefixExpression" ->
            String(n) = Ok(B(<<"(">>) \o n.Operator \o String(n.Right).s \o B(<<")">>))
      [] n.node = "InfixExpression" ->
            String(n) = Ok(B(<<"(">>) \o String(n.Left).s \o B(<<" ">>) \o n.Operator
                           \o B(<<" ">>) \o String(n.Right).s \o B(<<")">>))
      [] n.node = "LetStatement" ->
            String(n) = Ok(B(<<"l", "e", "t", " ">>) \o n.Name.Value \o B(<<" ", "=", " ">>)
                           \o (IF n.Value = Nil THEN <<>> ELSE String(n.Value).s)
                           \o B(<<";">>))
      [] OTHER -> TRUE

C21_StringIsTotal ==
    pc = "stringified" =>
        /\ out.ok
        /\ \A n \in Nodes(Program(program)) : FollowsRule(n)

IdentWords == { <<"x">>, <<"y">> }

\* words is empty, or identifiers separated by single commas.
IsParameterList(words) ==
    \/ words = <<>>
    \/ /\ Len(words) % 2 = 1
       /\ \A i \in 1..Len(words) :
             IF i % 2 = 1 THEN words[i] \in IdentWords ELSE words[i] = <<",">>

C23_ParametersAreIdentifiers ==
    (pc = "parsed" /\ round = 1 /\ gen.kind = "fn") =>
        /\ \A n \in Nodes(Program(program)) :
              n.node = "FunctionLiteral" =>
                  \A i \in 1..Len(n.Parameters.elems) :
                      n.Parameters.elems[i].Token.Type = IDENT
        /\ ~IsParameterList(gen.words) => Errors(p) # <<>>

(***************************************************************************)
(* C24.  expectPeek(t): when the peek token has kind t, the parser         *)
(* advances one token (the old peek is current, the lexer's next token is  *)
(* peek), true is returned and the errors are as before; otherwise false   *)
(* is returned, the current token, the peek token and the lexer are as     *)
(* before, and the one message "expected next token to be t, got <kind of  *)
(* peek>" is appended.                                                     *)
(***************************************************************************)
C24_ExpectPeekFrame ==
    [][pc = "expecting" =>
          IF p.peekToken.Type = last'.t
          THEN /\ last'.v
               /\ p'.curToken = p.peekToken
               /\ p'.peekToken = NextToken(p.l).tok
               /\ p'.l = NextToken(p.l).l
               /\ p'.errors = p.errors
          ELSE /\ ~last'.v
               /\ p'.curToken = p.curToken
               /\ p'.peekToken = p.peekToken
               /\ p'.l = p.l
               /\ p'.errors = Append(p.errors,
                                     [msg |-> "expected next token to be %s, got %s",
                                      expected |-> last'.t, got |-> p.peekToken.Type])]_vars

C24_Witness ==
    /\ pc = "expecting"
    /\ src = B(<<"l", "e", "t", " ", "x">>)
    /\ p.curToken = Token(IDENT, B(<<"x">>))
    /\ p.peekToken = Token(EOF, <<>>)
    /\ last = [t |-> ASSIGN, v |-> FALSE]
    /\ p.errors = <<[msg |-> "expected next token to be %s, got %s",
                     expected |-> ASSIGN, got |-> EOF]>>

(***************************************************************************)
(* C25.  A block is ended by its closing }: a source in which the { of an  *)
(* if expression or a function literal is never closed before the end of   *)
(* the input (parseBlockStatement was entered and the source has more {    *)
(* than }) is reported with at least one parse error.                      *)
(***************************************************************************)
HasBlock == \E n \in Nodes(Program(program)) : n.node = "BlockStatement"

Count(words, w) == Cardinality({i \in 1..Len(words) : words[i] = w})

MoreOpenedThanClosed == Count(gen.words, <<"{">>) > Count(gen.words, <<"}">>)

C25_UnclosedBlockIsAnError ==
    (pc = "parsed" /\ round = 1 /\ gen.kind = "words" /\ MoreOpenedThanClosed /\ HasBlock)
        => Errors(p) # <<>>

(***************************************************************************)
(* C26.  Parser lookahead: after New and after every operation of the      *)
(* parser, curToken and peekToken are two tokens the lexer returned one    *)
(* right after the other, and the parser's lexer is as the call that       *)
(* returned peekToken left it: the tokens pass through peekToken and       *)
(* curToken in the order the lexer emits them, none skipped and none read  *)
(* again, one NextToken call per advance, and the parser never goes back.  *)
(***************************************************************************)
MaxPastEnd == 8

\* The lexer of src after n calls of NextToken, with the token of the last call.
RECURSIVE After(_, _)
After(lx, n) == IF n = 0 THEN [l |-> lx, tok |-> ZeroToken] ELSE NextToken(After(lx, n - 1).l)

InStep(n) ==
    /\ p.curToken = After(LexerNew(src), n - 1).tok
    /\ p.peekToken = After(LexerNew(src), n).tok
    /\ p.l = After(LexerNew(src), n).l

C26_LookaheadInvariant ==
    /\ [](\E n \in 2..(Len(src) + MaxPastEnd) : InStep(n))
    /\ [][round' = round => p'.l.readPosition >= p.l.readPosition]_vars

C26_Witness ==
    /\ pc = "parsing"
    /\ src = B(<<"l", "e", "t", " ", "x", " ", "5">>)
    /\ InStep(4)
    /\ p.curToken = Token(INT, B(<<"5">>))
    /\ p.peekToken = Token(EOF, <<>>)
    /\ Len(Errors(p)) = 1

(***************************************************************************)
(* C27.  In the draft parser, whose parseLetStatement skips tokens until   *)
(* the current token is a semicolon, parseLetStatement returns for every   *)
(* finite input, also when let <ident> = is followed by no semicolon       *)
(* before the end of the input.                                            *)
(***************************************************************************)
C27_DraftLetReturns == pc = "returned" => ~p.g.cut

(***************************************************************************)
(* C28.  Environment is a flat map where the last write wins: after any    *)
(* Set calls on a new environment, Get(name) returns the value of the most *)
(* recent Set(name, v) and true, and the absent value and false for a name *)
(* never set; Set(name, v) returns v and changes the binding of no other   *)
(* name, and Get changes nothing.                                          *)
(***************************************************************************)
SetsOf(name) == {k \in 1..Len(env.g.sets) : env.g.sets[k].name = name}

LastSetOf(name) == CHOOSE k \in SetsOf(name) : \A j \in SetsOf(name) : j <= k

C28_EnvironmentLastWriteWins ==
    /\ []((pc = "env" /\ last # NoLast /\ last.op = "Get")
             => IF SetsOf(last.name) = {}
                THEN last.obj = NilObject /\ ~last.ok
                ELSE last.obj = env.g.sets[LastSetOf(last.name)].val /\ last.ok)
    /\ [][(pc = "env" /\ last'.op = "Set")
             => /\ last'.v = last'.val
                /\ \A n \in EnvNames \ {last'.name} :
                      Environment_Get(env', n) = Environment_Get(env, n)]_vars
    /\ [][(pc = "env" /\ last'.op = "Get") => env' = env]_vars

C28_Witness ==
    /\ pc = "env"
    /\ env.g.sets = <<[name |-> B(<<"x">>), val |-> TRUE_OBJECT],
                      [name |-> B(<<"y">>), val |-> NULL],
                      [name |-> B(<<"x">>), val |-> FALSE_OBJECT]>>
    /\ last = [op |-> "Get", name |-> B(<<"x">>), obj |-> FALSE_OBJECT, ok |-> TRUE]

(***************************************************************************)
(* C29.  Tokens never overlap: the parts of the source that consecutive    *)
(* tokens are made from are disjoint and in increasing order, so a byte is *)
(* in at most one token.  == and != take their two bytes and the second is *)
(* not a token of its own, every other operator, delimiter and ILLEGAL     *)
(* token takes one byte, and a run of digits or letters does not take the  *)
(* byte that ends it.                                                      *)
(***************************************************************************)
DigitBytes == 48..57

C29_TokensNeverOverlap ==
    /\ \A k \in 1..(Len(toks) - 1) :
          toks[k].from < toks[k + 1].from /\ toks[k].to <= toks[k + 1].from
    /\ \A k \in 1..Len(toks) :
          /\ toks[k].from < toks[k].to
          /\ CASE toks[k].tok.Type \in {EQ, NOT_EQ} -> toks[k].to = toks[k].from + 2
               [] toks[k].tok.Type = INT ->
                     \A i \in (toks[k].from + 1)..toks[k].to : src[i] \in DigitBytes
               [] toks[k].tok.Type \in IdentifierKinds ->
                     \A i \in (toks[k].from + 1)..toks[k].to : src[i] \in AsciiLetters
               [] OTHER -> toks[k].to = toks[k].from + 1

C29_Witness ==
    /\ src = B(<<"a", "=", "=", "1">>)
    /\ Len(toks) = 4
    /\ toks[1] = [tok |-> Token(IDENT, B(<<"a">>)), from |-> 0, to |-> 1, atEnd |-> FALSE]
    /\ toks[2] = [tok |-> Token(EQ, B(<<"=", "=">>)), from |-> 1, to |-> 3, atEnd |-> FALSE]
    /\ toks[3] = [tok |-> Token(INT, B(<<"1">>)), from |-> 3, to |-> 4, atEnd |-> FALSE]
    /\ toks[4].tok = Token(EOF, <<>>)

(***************************************************************************)
(* C30.  Every kind of token whose precedence in the precedence table is   *)
(* above LOWEST has a registered infix parse function, so the infix lookup *)
(* inside the loop of parseExpression never misses: its return of leftExp  *)
(* is never taken, and the loop ends only on its condition (peek is a      *)
(* semicolon, or the given precedence is not below the peek precedence).   *)
(***************************************************************************)
C30_InfixLookupNeverMisses ==
    /\ \A t \in DOMAIN precedences : precedences[t] > LOWEST => t \in infixRegistered
    /\ ~p.g.missed

C30_Witness ==
    /\ pc = "parsed"
    /\ round = 1
    /\ src = Text(<< <<"x">>, <<"+">>, <<"5">> >>)
    /\ Errors(p) = <<>>
    /\ Len(program) = 1
    /\ program[1].Expression.node = "InfixExpression"
    /\ ~p.g.missed

InitLex == \E source \in LexerSources : StartLexer([kind |-> "bytes"], source)

SpecLex == InitLex /\ [][NextLex]_vars

InitEval ==
    \E stmts \in EvalPrograms :
        Start([kind |-> "eval", stmts |-> stmts], Join(stmts, B(<<";", " ">>)))

SpecEval == InitEval /\ [][NextEval]_vars

SpecTwice == InitEval /\ [][NextTwice]_vars

InitFn ==
    \E words \in ParamLists :
        Start([kind |-> "fn", words |-> words], Text(FunctionWords(words)))

SpecFn == InitFn /\ [][Next]_vars

\* The state after lexer.New(source) and parser.New(l), before a call of
\* one of the parser's operations.
InitPeek ==
    \E words \in PeekSources :
        /\ gen = [kind |-> "words", words |-> words]
        /\ src = Text(words)
        /\ round = 1
        /\ pc = "expecting"
        /\ p = New(LexerNew(Text(words)))
        /\ program = <<>>
        /\ last = NoLast
        /\ out = Ok(<<>>)
        /\ first = NoFirst
        /\ l = LexerNew(Text(words))
        /\ toks = <<>>
        /\ result = NotEvaluated
        /\ env = NewEnvironment

SpecPeek == InitPeek /\ [][NextPeek]_vars

InitBlock ==
    \E words \in BlockSources : Start([kind |-> "words", words |-> words], Text(words))

SpecBlock == InitBlock /\ [][Next]_vars

\* The draft parser as its parseStatement calls parseLetStatement: on a
\* source that starts with let.
InitDraft ==
    \E words \in WordSoups :
        /\ gen = [kind |-> "words", words |-> << <<"l", "e", "t">> >> \o words]
        /\ src = Text(<< <<"l", "e", "t">> >> \o words)
        /\ round = 1
        /\ pc = "draft"
        /\ p = New(LexerNew(Text(<< <<"l", "e", "t">> >> \o words)))
        /\ program = <<>>
        /\ last = NoLast
        /\ out = Ok(<<>>)
        /\ first = NoFirst
        /\ l = LexerNew(Text(<< <<"l", "e", "t">> >> \o words))
        /\ toks = <<>>
        /\ result = NotEvaluated
        /\ env = NewEnvironment

SpecDraft == InitDraft /\ [][NextDraft]_vars

\* The state after NewEnvironment().
InitEnv ==
    /\ gen = [kind |-> "env"]
    /\ src = <<>>
    /\ round = 1
    /\ pc = "env"
    /\ p = New(LexerNew(<<>>))
    /\ program = <<>>
    /\ last = NoLast
    /\ out = Ok(<<>>)
    /\ first = NoFirst
    /\ l = LexerNew(<<>>)
    /\ toks = <<>>
    /\ result = NotEvaluated
    /\ env = NewEnvironment

SpecEnv == InitEnv /\ [][NextEnv]_vars

Init == \E words \in WordSoups \cup Damaged : Start([kind |-> "words", words |-> words], Text(words))

Spec == Init /\ [][Next]_vars
====
